---- MODULE Spec2Model ----
\* Model of the `| stats ...` pipe of lib/logstorage/pipe_stats.go:
\* per-worker shards with three group sub-maps, the state-size budget protocol
\* of writeBlock, and flush with its scatter / fan-in merge / emit stages.
\*
\* Strings are sequences of byte codes ('0' = 48, '-' = 45, 'a' = 97).
\* A value of a typed int64 column is the 1-element sequence <<n>> standing for
\* the 8-byte little-endian encoding of n.
EXTENDS Integers, Sequences, FiniteSets, Bags, TLC

\* ---------------------------------------------------------------- bounds

\* rows in one block
MaxBlockRows == 2
\* rows written over all workers
MaxRows == 4
\* byte length of the one long field value the inputs carry
BigValueLen == 600000
\* rows of a block of a shard.writeBlock call on its own (SpecCache)
CacheBlockRows == 3

\* ------------------------------------------------------- program constants

stateSizeBudgetChunk == 1048576
\* psw.resultLen >= 64_000 triggers an emit
resultLenLimit == 64000
\* unsafe.Sizeof of a string header, an interface value, a pointer; the
\* charge of an integer key
sizeofString == 16
sizeofStatsProcessor == 16
sizeofPsgPtr == 8
sizeofIntKey == 8

\* the stats functions of the pipe:
\* `stats by (...) count() as c, values(d) as v, count() if (d:*) as n`
Funcs == << [f |-> "count", iff |-> FALSE, resultName |-> "c"],
            [f |-> "values", iff |-> FALSE, resultName |-> "v"],
            [f |-> "count", iff |-> TRUE, resultName |-> "n"] >>

\* ------------------------------------------------------------- input sets

\* the by-field values "0", "-0", "-1", "a"
ByValues == { <<48>>, <<45, 48>>, <<45, 49>>, <<97>> }
\* values of a typed int64 column
Int64Values == { <<0>>, <<-1>> }

WorkerCounts == {1, 2}
CpuCounts == {2}
\* more CPUs than workers (SpecCpus)
MoreCpuCounts == {3}
ByFieldCounts == {0, 1}
\* the by-field counts other than 1 (SpecMulti)
MultiByFieldCounts == {0, 2}
\* memory.Allowed() * 0.3: below one chunk, exactly one chunk, ample
MaxStateSizes == { stateSizeBudgetChunk \div 2, stateSizeBudgetChunk,
                   8 * stateSizeBudgetChunk }

\* ------------------------------------------------ values_encoder helpers

Minus == <<45>>

IsDigit(b) == b >= 48 /\ b <= 57

RECURSIVE parseDigits(_, _)
parseDigits(s, acc) ==
    IF s = <<>> THEN acc ELSE parseDigits(Tail(s), acc * 10 + (Head(s) - 48))

ParseFail == [ok |-> FALSE, n |-> 0]

tryParseUint64(s) ==
    IF Len(s) = 0 \/ \E i \in 1..Len(s) : ~IsDigit(s[i])
    THEN ParseFail
    ELSE [ok |-> TRUE, n |-> parseDigits(s, 0)]

tryParseInt64(s) ==
    IF Len(s) = 0 THEN ParseFail
    ELSE LET isMinus == s[1] = 45
             u == tryParseUint64(IF isMinus THEN Tail(s) ELSE s)
         IN IF ~u.ok THEN ParseFail
            ELSE [ok |-> TRUE, n |-> IF isMinus THEN 0 - u.n ELSE u.n]

RECURSIVE digitsOf(_)
digitsOf(n) ==
    IF n < 10 THEN <<48 + n>> ELSE digitsOf(n \div 10) \o <<48 + (n % 10)>>

marshalUint64String(n) == digitsOf(n)

marshalInt64String(n) == IF n < 0 THEN Minus \o digitsOf(0 - n) ELSE digitsOf(n)

unmarshalInt64(v) == v[1]

\* xxhash.Sum64 of a byte string (an arbitrary fixed function of the bytes)
RECURSIVE Sum64(_)
Sum64(k) == IF k = <<>> THEN 7 ELSE (31 * Sum64(Tail(k)) + Head(k)) % 1009

\* the 8 bytes of a uint64 map key; a negative64 key n is held as uint64(n)
KeyBytes8(n) ==
    IF n >= 0 THEN <<n % 256, (n \div 256) % 256, 0, 0, 0, 0, 0, 0>>
    ELSE <<(256 + n) % 256, 255, 255, 255, 255, 255, 255, 255>>

\* ---------------------------------------------------------- finite maps

Put(f, k, v) == [x \in (DOMAIN f) \cup {k} |-> IF x = k THEN v ELSE f[x]]

RECURSIVE SumSeq(_)
SumSeq(s) == IF s = <<>> THEN 0 ELSE Head(s) + SumSeq(Tail(s))

\* ------------------------------------------------------ pipeStatsGroupMap

\* psm.init: three empty maps
InitGroupMap == [u64 |-> <<>>, negative64 |-> <<>>, strings |-> <<>>]

\* psm.reset: the maps are dropped
ResetGroupMap == [u64 |-> <<>>, negative64 |-> <<>>, strings |-> <<>>]

entriesCount(psm) ==
    Cardinality(DOMAIN psm.u64) + Cardinality(DOMAIN psm.negative64)
        + Cardinality(DOMAIN psm.strings)

\* bytes the chunked allocator hands out for one stats processor
newStatsProcessorSize(f) == IF f.f = "count" THEN 8 ELSE 24

\* newPipeStatsGroup: one fresh processor per function, and what it charges
NewGroup == [sfps |-> [i \in 1..Len(Funcs) |-> 0]]

NewGroupCharge ==
    SumSeq([i \in 1..Len(Funcs) |-> newStatsProcessorSize(Funcs[i])])
        + sizeofPsgPtr + sizeofStatsProcessor * Len(Funcs)

\* Each getPipeStatsGroup* returns the shard after the lookup (the map with
\* the group created on a miss, the budget charged) and a reference to the group.
\* a lookup that makes a new group whether the key is in the map or not
getPipeStatsGroupUint64_AlwaysNew(shard, n) ==
    [shard |-> [m |-> [shard.m EXCEPT !.u64 = Put(@, n, NewGroup)],
                stateSizeBudget |->
                    shard.stateSizeBudget - NewGroupCharge - sizeofIntKey],
     kind |-> "u64", key |-> <<n>>]

getPipeStatsGroupUint64(shard, n) ==
    IF n \in DOMAIN shard.m.u64
    THEN [shard |-> shard, kind |-> "u64", key |-> <<n>>]
    ELSE [shard |-> [m |-> [shard.m EXCEPT !.u64 = Put(@, n, NewGroup)],
                     stateSizeBudget |->
                         shard.stateSizeBudget - NewGroupCharge - sizeofIntKey],
          kind |-> "u64", key |-> <<n>>]

getPipeStatsGroupNegativeInt64(shard, n) ==
    IF n \in DOMAIN shard.m.negative64
    THEN [shard |-> shard, kind |-> "negative64", key |-> <<n>>]
    ELSE [shard |-> [m |-> [shard.m EXCEPT !.negative64 = Put(@, n, NewGroup)],
                     stateSizeBudget |->
                         shard.stateSizeBudget - NewGroupCharge - sizeofIntKey],
          kind |-> "negative64", key |-> <<n>>]

getPipeStatsGroupString(shard, key) ==
    IF key \in DOMAIN shard.m.strings
    THEN [shard |-> shard, kind |-> "strings", key |-> key]
    ELSE [shard |-> [m |-> [shard.m EXCEPT !.strings = Put(@, key, NewGroup)],
                     stateSizeBudget |->
                         shard.stateSizeBudget - NewGroupCharge
                             - (Len(key) + sizeofString)],
          kind |-> "strings", key |-> key]

getPipeStatsGroupInt64(shard, n) ==
    IF n >= 0 THEN getPipeStatsGroupUint64(shard, n)
    ELSE getPipeStatsGroupNegativeInt64(shard, n)

getPipeStatsGroupGeneric(shard, key) ==
    IF tryParseUint64(key).ok
    THEN getPipeStatsGroupUint64(shard, tryParseUint64(key).n)
    ELSE IF Len(key) > 0 /\ key[1] = 45 /\ tryParseInt64(key).ok
         THEN getPipeStatsGroupNegativeInt64(shard, tryParseInt64(key).n)
         ELSE getPipeStatsGroupString(shard, key)

\* the group a reference points at, and the map with that group replaced
GroupAt(m, r) ==
    IF r.kind = "u64" THEN m.u64[r.key[1]]
    ELSE IF r.kind = "negative64" THEN m.negative64[r.key[1]]
    ELSE m.strings[r.key]

SetGroup(m, r, g) ==
    IF r.kind = "u64" THEN [m EXCEPT !.u64[r.key[1]] = g]
    ELSE IF r.kind = "negative64" THEN [m EXCEPT !.negative64[r.key[1]] = g]
    ELSE [m EXCEPT !.strings[r.key] = g]

\* ---------------------------------------------------------- statsProcessor

\* count(): rows seen, no state growth; values(d): the bytes of the values kept,
\* growing by the length of the row's value
sfpUpdateStatsForRow(f, st, row) ==
    IF f.f = "count" THEN [st |-> st + 1, n |-> 0]
    ELSE [st |-> st + row.d, n |-> row.d]

RECURSIVE sfpUpdateStatsForAllRows(_, _, _)
sfpUpdateStatsForAllRows(f, st, rows) ==
    IF rows = <<>> THEN [st |-> st, n |-> 0]
    ELSE LET one == sfpUpdateStatsForRow(f, st, Head(rows))
             rest == sfpUpdateStatsForAllRows(f, one.st, Tail(rows))
         IN [st |-> rest.st, n |-> one.n + rest.n]

sfpMergeState(f, st, src) == st + src

\* length of the string finalizeStats appends: a decimal number, a JSON array
finalizeLen(f, st) == IF f.f = "count" THEN Len(digitsOf(st)) ELSE st + 2

\* ----------------------------------------------------------- pipeStatsGroup

\* iff.f.applyToBlockResult for the filter `d:*`: the row has a non-empty d
FilterMatches(f, row) == row.d > 0

\* a filter pass that leaves every bit set
applyPerFunctionFilters_AllSet(rows) ==
    [i \in 1..Len(Funcs) |->
        IF Funcs[i].iff THEN [k \in 1..Len(rows) |-> TRUE] ELSE <<>>]

\* shard.applyPerFunctionFilters: shard.bms, one bitmap per function with a
\* filter
applyPerFunctionFilters(rows) ==
    [i \in 1..Len(Funcs) |->
        IF Funcs[i].iff
        THEN [k \in 1..Len(rows) |-> FilterMatches(Funcs[i], rows[k])]
        ELSE <<>>]

\* brTmp.initFromFilterAllColumns(br, bm): the rows of br whose bit is set
RECURSIVE initFromFilterAllColumns(_, _)
initFromFilterAllColumns(rows, bm) ==
    IF rows = <<>> THEN <<>>
    ELSE (IF Head(bm) THEN <<Head(rows)>> ELSE <<>>)
             \o initFromFilterAllColumns(Tail(rows), Tail(bm))

psgUpdateStatsForAllRows(psg, bms, rows) ==
    LET r == [i \in 1..Len(Funcs) |->
                 IF ~Funcs[i].iff
                 THEN sfpUpdateStatsForAllRows(Funcs[i], psg.sfps[i], rows)
                 ELSE sfpUpdateStatsForAllRows(Funcs[i], psg.sfps[i],
                          initFromFilterAllColumns(rows, bms[i]))]
    IN [psg |-> [sfps |-> [i \in 1..Len(Funcs) |-> r[i].st]],
        n |-> SumSeq([i \in 1..Len(Funcs) |-> r[i].n])]

psgUpdateStatsForRow(psg, bms, rows, rowIdx) ==
    LET r == [i \in 1..Len(Funcs) |->
                 IF ~Funcs[i].iff \/ bms[i][rowIdx]
                 THEN sfpUpdateStatsForRow(Funcs[i], psg.sfps[i], rows[rowIdx])
                 ELSE [st |-> psg.sfps[i], n |-> 0]]
    IN [psg |-> [sfps |-> [i \in 1..Len(Funcs) |-> r[i].st]],
        n |-> SumSeq([i \in 1..Len(Funcs) |-> r[i].n])]

\* a merge that keeps the destination group and loses the source's state
psgMergeState_DropsSrc(psg, src) == psg

\* a merge that folds accumulator i + 1 of the source into accumulator i
psgMergeState_Shifted(psg, src) ==
    [sfps |-> [i \in 1..Len(Funcs) |->
                  sfpMergeState(Funcs[i], psg.sfps[i],
                                src.sfps[(i % Len(Funcs)) + 1])]]

psgMergeState(psg, src) ==
    [sfps |-> [i \in 1..Len(Funcs) |->
                  sfpMergeState(Funcs[i], psg.sfps[i], src.sfps[i])]]

\* ------------------------------------------------- pipeStatsProcessorShard

\* shard.stateSizeBudget -= psg.updateStatsForAllRows(...) on the group g points at
UpdateAllRows(g, rows) ==
    LET u == psgUpdateStatsForAllRows(GroupAt(g.shard.m, g),
                                      applyPerFunctionFilters(rows), rows)
    IN [m |-> SetGroup(g.shard.m, g, u.psg),
        stateSizeBudget |-> g.shard.stateSizeBudget - u.n]

UpdateRow(g, rows, rowIdx) ==
    LET u == psgUpdateStatsForRow(GroupAt(g.shard.m, g),
                                  applyPerFunctionFilters(rows), rows, rowIdx)
    IN [m |-> SetGroup(g.shard.m, g, u.psg),
        stateSizeBudget |-> g.shard.stateSizeBudget - u.n]

\* the lookup of one of the per-row loops of updateStatsSingleColumn
LookupSingleColumn(shard, kind, v) ==
    IF kind = "int64" THEN getPipeStatsGroupInt64(shard, unmarshalInt64(v))
    ELSE getPipeStatsGroupGeneric(shard, v)

\* the per-row loops of updateStatsSingleColumn: a lookup at the first row of
\* each run of equal values, the cached group for the rest of the run
\* a cache test against the first row of the block
SameAsPrevious_First(rows, i) == i > 1 /\ rows[1].by = rows[i].by

\* the negation of `i <= 0 || values[i-1] != values[i]`, over all by-fields
SameAsPrevious(rows, i) == i > 1 /\ rows[i - 1].by = rows[i].by

\* the loop with the number of getPipeStatsGroup* calls it has made
RECURSIVE SingleColumnLoopCounted(_, _, _, _, _)
SingleColumnLoopCounted(shard, br, i, psg, lookups) ==
    IF i > Len(br.rows) THEN [shard |-> shard, lookups |-> lookups]
    ELSE LET v == br.rows[i].by[1]
             hit == SameAsPrevious(br.rows, i)
             g == IF ~hit
                  THEN LookupSingleColumn(shard, br.kind, v)
                  ELSE [shard |-> shard, kind |-> psg.kind, key |-> psg.key]
         IN SingleColumnLoopCounted(UpdateRow(g, br.rows, i), br, i + 1, g,
                                    IF hit THEN lookups ELSE lookups + 1)

SingleColumnLoop(shard, br, i, psg) ==
    SingleColumnLoopCounted(shard, br, i, psg, 0).shard

NilGroup == [kind |-> "nil", key |-> <<>>]

updateStatsSingleColumn(shard, br) ==
    IF br.kind = "const"
    THEN UpdateAllRows(getPipeStatsGroupGeneric(shard, br.rows[1].by[1]), br.rows)
    ELSE SingleColumnLoop(shard, br, 1, NilGroup)

\* encoding.MarshalBytes: the length, then the bytes
MarshalBytes(v) == <<Len(v)>> \o v

\* a key that is the plain concatenation of the values
RECURSIVE MarshalKey_Concat(_)
MarshalKey_Concat(by) ==
    IF by = <<>> THEN <<>> ELSE Head(by) \o MarshalKey_Concat(Tail(by))

RECURSIVE MarshalKey(_)
MarshalKey(by) ==
    IF by = <<>> THEN <<>> ELSE MarshalBytes(Head(by)) \o MarshalKey(Tail(by))

areAllConstColumns(br) ==
    \A i \in 1..Len(br.rows) : br.rows[i].by = br.rows[1].by

RECURSIVE MultiColumnLoopCounted(_, _, _, _, _)
MultiColumnLoopCounted(shard, br, i, psg, lookups) ==
    IF i > Len(br.rows) THEN [shard |-> shard, lookups |-> lookups]
    ELSE LET sameValue == SameAsPrevious(br.rows, i)
             g == IF ~sameValue
                  THEN getPipeStatsGroupString(shard, MarshalKey(br.rows[i].by))
                  ELSE [shard |-> shard, kind |-> psg.kind, key |-> psg.key]
         IN MultiColumnLoopCounted(UpdateRow(g, br.rows, i), br, i + 1, g,
                                   IF sameValue THEN lookups ELSE lookups + 1)

MultiColumnLoop(shard, br, i, psg) ==
    MultiColumnLoopCounted(shard, br, i, psg, 0).shard

\* a writeBlock that takes the single-column path for any by-fields
shardWriteBlock_SingleColumn(shard, br, nb) ==
    IF nb = 0
    THEN UpdateAllRows(getPipeStatsGroupString(shard, <<>>), br.rows)
    ELSE updateStatsSingleColumn(shard, br)

\* shard.writeBlock
shardWriteBlock(shard, br, nb) ==
    IF nb = 0
    THEN UpdateAllRows(getPipeStatsGroupString(shard, <<>>), br.rows)
    ELSE IF nb = 1 THEN updateStatsSingleColumn(shard, br)
    ELSE IF areAllConstColumns(br)
         THEN UpdateAllRows(
                  getPipeStatsGroupString(shard, MarshalKey(br.rows[1].by)), br.rows)
         ELSE MultiColumnLoop(shard, br, 1, NilGroup)

\* the getPipeStatsGroup* calls of shard.writeBlock: one in each fast path,
\* the count of the loop in the per-row paths
writeBlockLookups(shard, br, nb) ==
    IF nb = 0 THEN 1
    ELSE IF nb = 1
         THEN IF br.kind = "const" THEN 1
              ELSE SingleColumnLoopCounted(shard, br, 1, NilGroup, 0).lookups
         ELSE IF areAllConstColumns(br) THEN 1
              ELSE MultiColumnLoopCounted(shard, br, 1, NilGroup, 0).lookups

\* ------------------------------------------------------------------ state

VARIABLES
    workersCount,      \* newPipeProcessor's workersCount
    cpusCount,         \* cgroup.AvailableCPUs()
    byFieldsLen,       \* len(ps.byFields)
    maxStateSize,      \* psp.maxStateSize
    stateSizeBudget,   \* psp.stateSizeBudget, the global atomic counter
    shards,            \* psp.shards: [m, stateSizeBudget] per worker
    stopped,           \* stopCh is closed
    cancelCalls,       \* number of psp.cancel() invocations
    wpc,               \* where each worker's writeBlock call stands
    wbr,               \* the block of a writeBlock call inside its budget loop
    input,             \* bag of the rows passed to writeBlock
    dropped,           \* writeBlock calls that returned on an exhausted budget
    charged,           \* bytes each shard has charged for its state so far
    stopAtFlush,       \* stopCh was closed when flush was called
    fpc,               \* where flush stands
    flushErr,          \* what flush returned: "none" (not yet), "nil", "budget"
    spc,               \* scatter goroutines of mergeShardsParallel
    perShardMaps,      \* perShardMaps[idx]: <<>> while unset, else cpusCount maps
    mpc,               \* merge goroutines of mergeShardsParallel
    psms,              \* the maps flush hands to the writers
    writers,           \* the pipeStatsWriter of each emit goroutine
    nextCalls,         \* blocks passed to ppNext.writeBlock, per workerID
    ps,                \* the pipeStats that parsePipeStats builds (SpecParse)
    bk,                \* the rows bucketed so far and their groups (SpecBucket)
    run                \* a shard.writeBlock call on its own (SpecCache)

cfgVars == <<workersCount, cpusCount, byFieldsLen, maxStateSize, ps, bk, run>>
ingestVars == <<stateSizeBudget, shards, cancelCalls, wpc, wbr, input, dropped,
                charged>>
flushVars == <<fpc, flushErr, spc, perShardMaps, mpc, psms, writers, nextCalls,
               stopAtFlush>>
vars == <<cfgVars, ingestVars, flushVars, stopped>>

\* the state of the processor: everything but ps and bk
procVars == <<workersCount, cpusCount, byFieldsLen, maxStateSize, ingestVars,
              flushVars, stopped>>

Workers == 0..(workersCount - 1)

\* ----------------------------------------------------------------- inputs

SeqsUpTo(S, n) == UNION {[1..k -> S] : k \in 0..n}

Rows0 == {[by |-> <<>>, d |-> d] : d \in {0, BigValueLen}}
Rows1 == {[by |-> <<v>>, d |-> IF v = <<97>> THEN BigValueLen ELSE 0] :
              v \in ByValues}
RowsInt64 == {[by |-> <<v>>, d |-> 0] : v \in Int64Values}
\* the value pairs of two by-fields: ("", "a"), ("a", ""), ("0", "-1")
ByPairs == { << <<>>, <<97>> >>, << <<97>>, <<>> >>, << <<48>>, <<45, 49>> >> }
Rows2 == {[by |-> v, d |-> IF v[1] = <<97>> THEN BigValueLen ELSE 0] :
              v \in ByPairs}

\* the blocks a worker may pass: a zero-row block, and for one by-field a
\* string column, a const column (one value for all rows), an int64 column
BlocksUpTo(nb, n) ==
    IF nb = 0
    THEN {[kind |-> "string", rows |-> r] : r \in SeqsUpTo(Rows0, n)}
    ELSE IF nb >= 2
    THEN {[kind |-> "string", rows |-> r] : r \in SeqsUpTo(Rows2, n)}
    ELSE {[kind |-> "string", rows |-> r] : r \in SeqsUpTo(Rows1, n)}
         \cup {[kind |-> "const", rows |-> r] :
                  r \in {s \in SeqsUpTo(Rows1, n) :
                            Len(s) >= 1 /\ \A i \in 1..Len(s) : s[i].by = s[1].by}}
         \cup {[kind |-> "int64", rows |-> r] :
                  r \in SeqsUpTo(RowsInt64, n) \ {<<>>}}

Blocks(nb) == BlocksUpTo(nb, MaxBlockRows)

NoBlock == [kind |-> "none", rows |-> <<>>]

\* the by-values of a row as the strings the query sees
RowStrings(kind, row) ==
    [i \in 1..Len(row.by) |->
        IF kind = "int64" THEN marshalInt64String(unmarshalInt64(row.by[i]))
        ELSE row.by[i]]

RECURSIVE AddRows(_, _, _)
AddRows(bag, kind, rows) ==
    IF rows = <<>> THEN bag
    ELSE LET r == [by |-> RowStrings(kind, Head(rows)), d |-> Head(rows).d]
         IN AddRows(bag (+) SetToBag({r}), kind, Tail(rows))

\* ------------------------------------------------------------------- Init

\* newPipeProcessor: every shard gets init() and a zero stateSizeBudget; the
\* global counter holds maxStateSize
\* a variant that hands every shard one chunk at construction
InitialShardBudget_Chunk == stateSizeBudgetChunk

\* the shard literal of newPipeProcessor sets ps and m only: the local
\* counter starts at the zero value
InitialShardBudget == 0

InitProcessor ==
    /\ workersCount \in WorkerCounts
    /\ cpusCount \in CpuCounts \cup MoreCpuCounts
    /\ byFieldsLen \in ByFieldCounts \cup MultiByFieldCounts
    /\ maxStateSize \in MaxStateSizes
    /\ stateSizeBudget = maxStateSize
    /\ shards = [w \in Workers |-> [m |-> InitGroupMap,
                                     stateSizeBudget |-> InitialShardBudget]]
    /\ stopped = FALSE
    /\ cancelCalls = 0
    /\ wpc = [w \in Workers |-> "idle"]
    /\ wbr = [w \in Workers |-> NoBlock]
    /\ input = EmptyBag
    /\ dropped = 0
    /\ charged = [w \in Workers |-> 0]
    /\ stopAtFlush = FALSE
    /\ fpc = "ingest"
    /\ flushErr = "none"
    /\ spc = <<>>
    /\ perShardMaps = <<>>
    /\ mpc = <<>>
    /\ psms = <<>>
    /\ writers = <<>>
    /\ nextCalls = <<>>

\* no pipe is being parsed, no rows are being bucketed
NoPipe == [stage |-> "none"]
NoBucketRun == [stage |-> "none"]
NoRun == [stage |-> "none"]

Init ==
    /\ InitProcessor
    /\ cpusCount \in CpuCounts
    /\ byFieldsLen \in ByFieldCounts
    /\ ps = NoPipe
    /\ bk = NoBucketRun
    /\ run = NoRun

\* ------------------------------------------------ pipeStatsProcessor.writeBlock

\* an exhaustion test on the counter's value before the subtraction
BudgetExhausted_PreValue(remaining) == remaining + stateSizeBudgetChunk < 0

\* a budget loop whose draws never fail
BudgetExhausted_Never(remaining) == FALSE

\* remaining < 0: the state size is too big
BudgetExhausted(remaining) == remaining < 0

\* a crossing test that holds for every exhausted call
CrossedZero_Always(remaining) == TRUE

\* remaining+stateSizeBudgetChunk >= 0: this subtraction crossed zero
CrossedZero(remaining) == remaining + stateSizeBudgetChunk >= 0

\* One pass of `for shard.stateSizeBudget < 0`: the atomic Add, then either the
\* return on an exhausted budget (cancel() pending if this call crossed zero) or
\* the chunk credited to the shard, followed by shard.writeBlock once the shard's
\* counter is no longer negative.
\* a processor whose workers all write into one shard
WithShard_Shared(all, workerID, shard) == [v \in DOMAIN all |-> shard]

\* shard := &psp.shards[workerID]: what the call does to its shard is done to
\* the element workerID of psp.shards
WithShard(all, workerID, shard) == [all EXCEPT ![workerID] = shard]

StealBudget(w, br) ==
    LET remaining == stateSizeBudget - stateSizeBudgetChunk
        sh == [shards[w] EXCEPT !.stateSizeBudget = @ + stateSizeBudgetChunk]
    IN /\ stateSizeBudget' = remaining
       /\ IF BudgetExhausted(remaining)
          THEN /\ wpc' = [wpc EXCEPT ![w] =
                             IF CrossedZero(remaining) THEN "cancel" ELSE "idle"]
               /\ wbr' = [wbr EXCEPT ![w] = NoBlock]
               /\ dropped' = dropped + 1
               /\ UNCHANGED <<shards, charged>>
          ELSE /\ dropped' = dropped
               /\ IF sh.stateSizeBudget < 0
                  THEN /\ shards' = WithShard(shards, w, sh)
                       /\ wpc' = [wpc EXCEPT ![w] = "loop"]
                       /\ wbr' = [wbr EXCEPT ![w] = br]
                       /\ UNCHANGED charged
                  ELSE /\ shards' = WithShard(shards, w,
                                        shardWriteBlock(sh, br, byFieldsLen))
                       /\ charged' = [charged EXCEPT ![w] =
                              @ + sh.stateSizeBudget - shards'[w].stateSizeBudget]
                       /\ wpc' = [wpc EXCEPT ![w] = "idle"]
                       /\ wbr' = [wbr EXCEPT ![w] = NoBlock]

\* psp.writeBlock(workerID, br) up to its first access to the global counter
WriteBlock(w, br) ==
    /\ fpc = "ingest"
    /\ wpc[w] = "idle"
    /\ BagCardinality(input) + Len(br.rows) <= MaxRows
    /\ input' = AddRows(input, br.kind, br.rows)
    /\ IF Len(br.rows) = 0
       THEN UNCHANGED <<stateSizeBudget, shards, wpc, wbr, dropped, charged>>
       ELSE IF shards[w].stateSizeBudget < 0
            THEN StealBudget(w, br)
            ELSE /\ shards' = WithShard(shards, w,
                                  shardWriteBlock(shards[w], br, byFieldsLen))
                 /\ charged' = [charged EXCEPT ![w] =
                        @ + shards[w].stateSizeBudget - shards'[w].stateSizeBudget]
                 /\ UNCHANGED <<stateSizeBudget, wpc, wbr, dropped>>
    /\ UNCHANGED <<cfgVars, flushVars, stopped, cancelCalls>>

\* a further pass of the budget loop of a call already inside it
WriteBlockLoop(w) ==
    /\ fpc = "ingest"
    /\ wpc[w] = "loop"
    /\ StealBudget(w, wbr[w])
    /\ UNCHANGED <<cfgVars, flushVars, stopped, cancelCalls, input>>

\* psp.cancel(), called by the writeBlock call that crossed zero; it closes stopCh
WriteBlockCancel(w) ==
    /\ fpc = "ingest"
    /\ wpc[w] = "cancel"
    /\ cancelCalls' = cancelCalls + 1
    /\ stopped' = TRUE
    /\ wpc' = [wpc EXCEPT ![w] = "idle"]
    /\ UNCHANGED <<cfgVars, flushVars, stateSizeBudget, shards, wbr, input,
                   dropped, charged>>

\* the query is cancelled from outside: stopCh is closed
CloseStopCh ==
    /\ ~stopped
    /\ fpc # "done"
    /\ stopped' = TRUE
    /\ UNCHANGED <<cfgVars, ingestVars, flushVars>>

\* ------------------------------------------------------ mergeShardsParallel

\* needStop(stopCh): stopCh is closed
needStop(stopCh) == stopCh

Restrict(f, S) == [x \in S |-> f[x]]

\* h % uint64(len(perCPU)) for an integer key and for a string key
ShardIdxUint64(n, cpus) == Sum64(KeyBytes8(n)) % cpus
ShardIdxString(k, cpus) == Sum64(k) % cpus

\* a scatter that puts every group into every perCPU map
ScatterMap_Everywhere(psm, cpus) == [c \in 0..(cpus - 1) |-> psm]

\* the perCPU maps a scatter goroutine fills from its shard's map
ScatterMap(psm, cpus) ==
    [c \in 0..(cpus - 1) |->
        [u64 |-> Restrict(psm.u64,
                     {n \in DOMAIN psm.u64 : ShardIdxUint64(n, cpus) = c}),
         negative64 |-> Restrict(psm.negative64,
                     {n \in DOMAIN psm.negative64 : ShardIdxUint64(n, cpus) = c}),
         strings |-> Restrict(psm.strings,
                     {k \in DOMAIN psm.strings : ShardIdxString(k, cpus) = c})]]

\* a merge loop that skips the keys missing in dst
MergeSubMap_DstOnly(dst, src) ==
    [k \in DOMAIN dst |->
        IF k \notin DOMAIN src THEN dst[k] ELSE psgMergeState(dst[k], src[k])]

\* one of the three loops of mergeState: a key missing in dst takes src's group,
\* a colliding key has src's group merged into dst's
MergeSubMap(dst, src) ==
    [k \in (DOMAIN dst) \cup (DOMAIN src) |->
        IF k \notin DOMAIN src THEN dst[k]
        ELSE IF k \notin DOMAIN dst THEN src[k]
        ELSE psgMergeState(dst[k], src[k])]

\* psm.mergeState(src, stopCh): with stopCh closed the first loop over a
\* non-empty sub-map returns at its first iteration
mergeState(psm, src, stop) ==
    IF stop /\ entriesCount(src) > 0 THEN psm
    ELSE [u64 |-> MergeSubMap(psm.u64, src.u64),
          negative64 |-> MergeSubMap(psm.negative64, src.negative64),
          strings |-> MergeSubMap(psm.strings, src.strings)]

\* the body of merge goroutine cpuIdx over perShardMaps[1:], from shard i on
RECURSIVE MergeFrom(_, _, _, _, _)
MergeFrom(psm, maps, i, cpuIdx, stop) ==
    IF i > workersCount - 1 THEN psm
    ELSE MergeFrom(mergeState(psm, maps[i][cpuIdx], stop), maps, i + 1, cpuIdx, stop)

\* the maps with entries, in cpu order
RECURSIVE NonEmptyMaps(_, _)
NonEmptyMaps(perCPU, c) ==
    IF c > cpusCount - 1 THEN <<>>
    ELSE (IF entriesCount(perCPU[c]) > 0 THEN <<perCPU[c]>> ELSE <<>>)
             \o NonEmptyMaps(perCPU, c + 1)

\* ------------------------------------------------------- pipeStatsProcessor.flush

\* a flush check that lets a counter of exactly zero pass
FlushBudgetError_Strict(n) == n < 0

\* a flush check that only catches a counter of exactly zero
FlushBudgetError_OnlyZero(n) == n = 0

\* a flush without the check of the counter
FlushBudgetError_Never(n) == FALSE

\* n <= 0 at the start of flush
FlushBudgetError(n) == n <= 0

\* a check after the scatter and the merge that wants a whole chunk left
MergeBudgetError_BelowChunk(n) == n < stateSizeBudgetChunk

\* n < 0 after the scatter and after the merge
MergeBudgetError(n) == n < 0

Return(err) ==
    /\ fpc' = "done"
    /\ flushErr' = err

\* flush up to the start of the scatter goroutines (one shard: up to the
\* return of mergeShardsParallel)
FlushStart ==
    /\ fpc = "ingest"
    /\ \A w \in Workers : wpc[w] = "idle"
    /\ IF FlushBudgetError(stateSizeBudget)
       THEN Return("budget") /\ UNCHANGED <<spc, perShardMaps, psms>>
       ELSE IF workersCount = 1
            THEN /\ psms' = IF entriesCount(shards[0].m) > 0
                            THEN <<shards[0].m>> ELSE <<>>
                 /\ fpc' = "merged"
                 /\ UNCHANGED <<flushErr, spc, perShardMaps>>
            ELSE /\ fpc' = "scatter"
                 /\ spc' = [i \in Workers |-> "run"]
                 /\ perShardMaps' = [i \in Workers |-> <<>>]
                 /\ UNCHANGED <<flushErr, psms>>
    /\ stopAtFlush' = stopped
    /\ UNCHANGED <<cfgVars, ingestVars, stopped, mpc, writers, nextCalls>>

\* scatter goroutine idx: with stopCh closed it returns at the first group and
\* leaves perShardMaps[idx] unset; else it fills its perCPU maps and resets
\* the shard's map
ScatterShard(idx) ==
    /\ fpc = "scatter"
    /\ spc[idx] = "run"
    /\ spc' = [spc EXCEPT ![idx] = "done"]
    /\ IF needStop(stopped) /\ entriesCount(shards[idx].m) > 0
       THEN UNCHANGED <<perShardMaps, shards>>
       ELSE /\ perShardMaps' = [perShardMaps EXCEPT ![idx] =
                                   ScatterMap(shards[idx].m, cpusCount)]
            /\ shards' = [shards EXCEPT ![idx].m = ResetGroupMap]
    /\ UNCHANGED <<cfgVars, stateSizeBudget, cancelCalls, wpc, wbr, input, dropped,
                   charged, stopped, fpc, flushErr, mpc, psms, writers, nextCalls,
                   stopAtFlush>>

\* goroutines that return without wg.Done()
WaitGroupDone_Missed(pcs) == FALSE

\* wg.Wait() returns: every goroutine of the stage has run its wg.Done()
WaitGroupDone(pcs) == \A i \in DOMAIN pcs : pcs[i] = "done"

\* a mergeShardsParallel that goes on after wg.Wait() without looking at stopCh
MergeShardsStopped_Never(stopCh) == FALSE

\* if needStop(psp.stopCh) { return nil, nil } after each wg.Wait()
MergeShardsStopped(stopCh) == needStop(stopCh)

\* wg.Wait() after the scatter, the stop check and the budget check
ScatterWait ==
    /\ fpc = "scatter"
    /\ WaitGroupDone(spc)
    /\ IF MergeShardsStopped(stopped)
       THEN Return("nil") /\ UNCHANGED mpc
       ELSE IF MergeBudgetError(stateSizeBudget)
            THEN Return("budget") /\ UNCHANGED mpc
            ELSE /\ fpc' = "merge"
                 /\ mpc' = [c \in 0..(cpusCount - 1) |-> "run"]
                 /\ UNCHANGED flushErr
    /\ UNCHANGED <<cfgVars, ingestVars, stopped, spc, perShardMaps, psms, writers,
                   nextCalls, stopAtFlush>>

\* merge goroutines that all fold into the first map of perShardMaps[0]
MergeDst_First(cpuIdx) == 0

\* psm := &perShardMaps[0][cpuIdx]: the map merge goroutine cpuIdx folds into
MergeDst(cpuIdx) == cpuIdx

\* merge goroutine cpuIdx: folds perShardMaps[1:][cpuIdx] into
\* perShardMaps[0][cpuIdx] and resets each source
MergeCpu(cpuIdx) ==
    /\ fpc = "merge"
    /\ mpc[cpuIdx] = "run"
    /\ mpc' = [mpc EXCEPT ![cpuIdx] = "done"]
    /\ perShardMaps' =
           [i \in Workers |->
               IF i = 0
               THEN [perShardMaps[0] EXCEPT ![MergeDst(cpuIdx)] =
                        MergeFrom(@, perShardMaps, 1, cpuIdx, needStop(stopped))]
               ELSE [perShardMaps[i] EXCEPT ![cpuIdx] = ResetGroupMap]]
    /\ UNCHANGED <<cfgVars, ingestVars, stopped, fpc, flushErr, spc, psms, writers,
                   nextCalls, stopAtFlush>>

\* wg.Wait() after the merge, the stop check, the budget check and the
\* filtering of the maps without entries
MergeWait ==
    /\ fpc = "merge"
    /\ WaitGroupDone(mpc)
    /\ IF MergeShardsStopped(stopped)
       THEN Return("nil") /\ UNCHANGED psms
       ELSE IF MergeBudgetError(stateSizeBudget)
            THEN Return("budget") /\ UNCHANGED psms
            ELSE /\ fpc' = "merged"
                 /\ psms' = NonEmptyMaps(perShardMaps[0], 0)
                 /\ UNCHANGED flushErr
    /\ UNCHANGED <<cfgVars, ingestVars, stopped, spc, perShardMaps, mpc, writers,
                   nextCalls, stopAtFlush>>

\* a check after the merge that never sees stopCh closed
FlushStopped_Never == FALSE

\* needStop(psp.stopCh) in flush, after mergeShardsParallel has returned
FlushStopped == needStop(stopped)

\* a flush that never takes the zero-rows special case
ZeroRowsSpecialCase_Never(nb, maps) == FALSE

\* len(psp.ps.byFields) == 0 && len(psms) == 0
ZeroRowsSpecialCase(nb, maps) == nb = 0 /\ Len(maps) = 0

\* the names of the by-fields, in declaration order
ByFieldNames(nb) == SubSeq(<<"f", "g">>, 1, nb)

\* a column layout with the functions' columns ahead of the by-fields
ResultColumnNames_FuncsFirst(nb) ==
    [i \in 1..Len(Funcs) |-> Funcs[i].resultName] \o ByFieldNames(nb)

\* newPipeStatsWriter: the names of psw.rcs, the by-fields and then the
\* functions' result names
ResultColumnNames(nb) ==
    ByFieldNames(nb) \o [i \in 1..Len(Funcs) |-> Funcs[i].resultName]

\* every writer goroutine gets the workerID 0
WriterID_Shared(i) == 0

\* go func(workerID uint) {...}(uint(i)): the workerID of the writer of psms[i]
WriterID(i) == i

\* newPipeStatsWriter, and the map the goroutine passes to writeShardData
NewWriter(psm, workerID) ==
    [todo |-> psm, rows |-> <<>>, resultLen |-> 0, rowsCount |-> 0, done |-> FALSE,
     workerID |-> workerID,
     rcs |-> [i \in 1..Len(ResultColumnNames(byFieldsLen)) |->
                 [name |-> ResultColumnNames(byFieldsLen)[i], values |-> <<>>]]]

\* flush after mergeShardsParallel returned: the stop check, the zero-rows
\* special case, and the start of one writer goroutine per map
StartWriters ==
    /\ fpc = "merged"
    /\ IF FlushStopped
       THEN Return("nil") /\ UNCHANGED <<shards, charged, psms, writers, nextCalls>>
       ELSE LET special == ZeroRowsSpecialCase(byFieldsLen, psms)
                g == getPipeStatsGroupString(
                         [shards[0] EXCEPT !.m = InitGroupMap], <<>>)
                maps == IF special THEN <<g.shard.m>> ELSE psms
            IN /\ shards' = IF special THEN [shards EXCEPT ![0] = g.shard]
                            ELSE shards
               /\ psms' = maps
               /\ writers' = [j \in 0..(Len(maps) - 1) |->
                                 NewWriter(maps[j + 1], WriterID(j))]
               /\ nextCalls' = [j \in 0..(Len(maps) - 1) |-> <<>>]
               /\ charged' = [charged EXCEPT ![0] =
                      @ + shards[0].stateSizeBudget - shards'[0].stateSizeBudget]
               /\ fpc' = "emit"
               /\ UNCHANGED flushErr
    /\ UNCHANGED <<cfgVars, stateSizeBudget, cancelCalls, wpc, wbr, input, dropped,
                   stopped, spc, perShardMaps, mpc, stopAtFlush>>

\* ------------------------------------------------------------ pipeStatsWriter

\* the entries the loops of writeShardData may visit next: for one by-field the
\* u64 map, then the negative64 map, then the strings map; else the strings map
WriterNext(todo, nb) ==
    IF nb = 1 /\ DOMAIN todo.u64 # {}
    THEN {[kind |-> "u64", key |-> <<n>>] : n \in DOMAIN todo.u64}
    ELSE IF nb = 1 /\ DOMAIN todo.negative64 # {}
         THEN {[kind |-> "negative64", key |-> <<n>>] : n \in DOMAIN todo.negative64}
         ELSE {[kind |-> "strings", key |-> k] : k \in DOMAIN todo.strings}

RemoveEntry(todo, r) ==
    IF r.kind = "u64"
    THEN [todo EXCEPT !.u64 = Restrict(@, (DOMAIN @) \ {r.key[1]})]
    ELSE IF r.kind = "negative64"
         THEN [todo EXCEPT !.negative64 = Restrict(@, (DOMAIN @) \ {r.key[1]})]
         ELSE [todo EXCEPT !.strings = Restrict(@, (DOMAIN @) \ {r.key})]

\* encoding.UnmarshalBytes applied until keyBuf is empty; <<"BUG">> stands for
\* the panic on an undecodable key
RECURSIVE UnmarshalKey(_)
UnmarshalKey(keyBuf) ==
    IF keyBuf = <<>> THEN <<>>
    ELSE IF Len(keyBuf) < 1 + keyBuf[1] THEN << <<-1>> >>
    ELSE <<SubSeq(keyBuf, 2, 1 + keyBuf[1])>>
             \o UnmarshalKey(SubSeq(keyBuf, 2 + keyBuf[1], Len(keyBuf)))

\* psw.values before writePipeStatsGroup: the by-field values of the entry
KeyValues(r, nb) ==
    IF nb = 1
    THEN IF r.kind = "u64" THEN <<marshalUint64String(r.key[1])>>
         ELSE IF r.kind = "negative64" THEN <<marshalInt64String(r.key[1])>>
         ELSE <<r.key>>
    ELSE UnmarshalKey(r.key)

\* the BUG panics of writeShardData and writePipeStatsGroup
WriterPanics(values, nb) ==
    \/ \E i \in 1..Len(values) : values[i] = <<-1>>
    \/ Len(values) # nb

\* a writer that never emits at the threshold
NeedFlush_Never(resultLen) == FALSE

\* psw.resultLen >= 64_000
NeedFlush(resultLen) == resultLen >= resultLenLimit

\* psw.flush: the block passed to ppNext.writeBlock and the writer after it
FlushedBlock(psw) ==
    [rowsLen |-> psw.rowsCount, rows |-> psw.rows, workerID |-> psw.workerID,
     rcs |-> psw.rcs]

pswFlush(psw) ==
    [psw EXCEPT !.rows = <<>>, !.resultLen = 0, !.rowsCount = 0,
                !.rcs = [i \in DOMAIN @ |-> [@[i] EXCEPT !.values = <<>>]]]

\* sfp.finalizeStats: the value the function writes for the state st
finalizeStats(f, st) == [of |-> f.resultName, st |-> st]

\* writePipeStatsGroup: the writer after the call and the blocks it passed on
writePipeStatsGroup(psw, values, psg) ==
    LET row == [by |-> values, vals |-> psg.sfps]
        n == SumSeq([i \in 1..Len(values) |-> Len(values[i])])
                 + SumSeq([i \in 1..Len(Funcs) |-> finalizeLen(Funcs[i], psg.sfps[i])])
        pswValues == values \o [i \in 1..Len(Funcs) |->
                                    finalizeStats(Funcs[i], psg.sfps[i])]
        w1 == [psw EXCEPT !.rows = Append(@, row), !.resultLen = @ + n,
                          !.rowsCount = @ + 1,
                          !.rcs = [i \in DOMAIN @ |->
                                      IF i <= Len(pswValues)
                                      THEN [@[i] EXCEPT !.values =
                                               Append(@, pswValues[i])]
                                      ELSE @[i]]]
    IN IF NeedFlush(w1.resultLen)
       THEN [psw |-> pswFlush(w1), out |-> <<FlushedBlock(w1)>>]
       ELSE [psw |-> w1, out |-> <<>>]

\* One iteration of a loop of writeShardData in writer goroutine workerID: with
\* stopCh closed writeShardData returns and the goroutine calls psw.flush();
\* else the entry r is written.
WriteGroup(workerID, r) ==
    /\ fpc = "emit"
    /\ ~writers[workerID].done
    /\ r \in WriterNext(writers[workerID].todo, byFieldsLen)
    /\ LET psw == writers[workerID]
           values == KeyValues(r, byFieldsLen)
           res == writePipeStatsGroup(psw, values, GroupAt(psw.todo, r))
       IN IF needStop(stopped)
          THEN /\ writers' = [writers EXCEPT ![workerID] =
                                 [pswFlush(psw) EXCEPT !.done = TRUE]]
               /\ nextCalls' = [nextCalls EXCEPT ![workerID] =
                                   Append(@, FlushedBlock(psw))]
               /\ UNCHANGED <<fpc, flushErr>>
          ELSE IF WriterPanics(values, byFieldsLen)
               THEN Return("panic") /\ UNCHANGED <<writers, nextCalls>>
               ELSE /\ writers' = [writers EXCEPT ![workerID] =
                                      [res.psw EXCEPT !.todo = RemoveEntry(@, r)]]
                    /\ nextCalls' = [nextCalls EXCEPT ![workerID] = @ \o res.out]
                    /\ UNCHANGED <<fpc, flushErr>>
    /\ UNCHANGED <<cfgVars, ingestVars, stopped, spc, perShardMaps, mpc, psms,
                   stopAtFlush>>

\* writeShardData has visited every entry: the goroutine calls psw.flush()
WriterFlush(workerID) ==
    /\ fpc = "emit"
    /\ ~writers[workerID].done
    /\ WriterNext(writers[workerID].todo, byFieldsLen) = {}
    /\ writers' = [writers EXCEPT ![workerID] =
                      [pswFlush(@) EXCEPT !.done = TRUE]]
    /\ nextCalls' = [nextCalls EXCEPT ![workerID] =
                        Append(@, FlushedBlock(writers[workerID]))]
    /\ UNCHANGED <<cfgVars, ingestVars, stopped, fpc, flushErr, spc, perShardMaps,
                   mpc, psms, stopAtFlush>>

\* wg.Wait() after the writers; flush returns nil
FlushDone ==
    /\ fpc = "emit"
    /\ \A j \in DOMAIN writers : writers[j].done
    /\ Return("nil")
    /\ UNCHANGED <<cfgVars, ingestVars, stopped, spc, perShardMaps, mpc, psms,
                   writers, nextCalls, stopAtFlush>>

\* ------------------------------------------------------------------- Spec

Next ==
    \/ \E w \in Workers : \E br \in Blocks(byFieldsLen) : WriteBlock(w, br)
    \/ \E w \in Workers : WriteBlockLoop(w)
    \/ \E w \in Workers : WriteBlockCancel(w)
    \/ CloseStopCh
    \/ FlushStart
    \/ \E idx \in Workers : ScatterShard(idx)
    \/ ScatterWait
    \/ \E c \in 0..(cpusCount - 1) : MergeCpu(c)
    \/ MergeWait
    \/ StartWriters
    \/ \E j \in DOMAIN writers :
           \E r \in WriterNext(writers[j].todo, byFieldsLen) : WriteGroup(j, r)
    \/ \E j \in DOMAIN writers : WriterFlush(j)
    \/ FlushDone

Spec == Init /\ [][Next]_vars

\* Every goroutine flush starts is scheduled until it returns, and flush goes
\* on after each wg.Wait(): the Go scheduler runs every runnable goroutine,
\* and ppNext.writeBlock and finalizeStats are taken to return.
FlushFairness ==
    /\ \A idx \in 0..1 : WF_vars(idx \in Workers /\ ScatterShard(idx))
    /\ WF_vars(ScatterWait)
    /\ \A c \in 0..1 : WF_vars(c < cpusCount /\ MergeCpu(c))
    /\ WF_vars(MergeWait)
    /\ WF_vars(StartWriters)
    /\ \A j \in 0..1 :
           /\ WF_vars(/\ j \in DOMAIN writers
                      /\ \E r \in WriterNext(writers[j].todo, byFieldsLen) :
                             WriteGroup(j, r))
           /\ WF_vars(j \in DOMAIN writers /\ WriterFlush(j))
    /\ WF_vars(FlushDone)

FairSpec == Init /\ [][Next]_vars /\ FlushFairness

\* the processor of a pipe whose number of by-fields is not 1
InitMulti ==
    /\ InitProcessor
    /\ cpusCount \in CpuCounts
    /\ byFieldsLen \in MultiByFieldCounts
    /\ ps = NoPipe
    /\ bk = NoBucketRun
    /\ run = NoRun

SpecMulti == InitMulti /\ [][Next]_vars

\* ------------------------------------------------------- parsePipeStats

\* the by clauses of the parsed pipes: none, by (x), by (_time)
ByClauses == {<<>>, <<"x">>, <<"_time">>}
\* the result name written after a function; "" when none is written
ResultNameTokens == {"", "x", "_time", "n"}
\* one stats function of the query text: the function, whether an
\* `if (...)` filter follows it, the result name that follows
FuncTokens == [f : {"count", "values"}, iff : BOOLEAN, as : ResultNameTokens]
MaxFuncs == 2
FuncLists == UNION {[1..n -> FuncTokens] : n \in 1..MaxFuncs}
\* the steps addByTimeField is called with
Steps == {0, 60}

\* statsFunc.String() of the two functions
sfString(tok) == IF tok.f = "count" THEN "count(*)" ELSE "values(d)"
\* ifFilter.String() of the filter of the query text
iffString == "if (d:*)"

\* parseByStatsFields: one byStatsField per name, no bucket
parseByStatsFields(names) ==
    [i \in 1..Len(names) |-> [name |-> names[i], bucketSize |-> 0]]

\* the result name of one function: the name written after it, else
\* sf.String() followed by the filter's string
DefaultResultName(tok) ==
    IF tok.iff THEN sfString(tok) \o " " \o iffString ELSE sfString(tok)
ResultNameOf(tok) == IF tok.as = "" THEN DefaultResultName(tok) ELSE tok.as

seenByFields(p) == {p.byFields[i].name : i \in DOMAIN p.byFields}

\* the pipes parsePipeStats is called on, after the by clause is parsed
ParseInputs ==
    {[stage |-> "parse", byFields |-> parseByStatsFields(by), lex |-> fl,
      text |-> fl, funcs |-> <<>>, seenResultNames |-> {}] :
        by \in ByClauses, fl \in FuncLists}

\* one iteration of the loop of parsePipeStats over the functions
ParseStatsFunc ==
    /\ ps.stage = "parse"
    /\ LET tok == Head(ps.lex)
           resultName == ResultNameOf(tok)
           f == [f |-> tok.f, iff |-> tok.iff, resultName |-> resultName]
       IN  IF resultName \in seenByFields(ps)
           THEN ps' = [ps EXCEPT !.stage = "err", !.funcs = <<>>]
           ELSE IF resultName \in ps.seenResultNames
           THEN ps' = [ps EXCEPT !.stage = "err", !.funcs = <<>>]
           ELSE ps' = [ps EXCEPT
                    !.seenResultNames = @ \cup {resultName},
                    !.funcs = Append(@, f),
                    !.lex = Tail(@),
                    !.stage = IF Len(ps.lex) = 1 THEN "ok" ELSE "parse"]
    /\ UNCHANGED <<procVars, bk, run>>

\* pipeStats.addByTimeField on a parsed pipe
AddByTimeField(step) ==
    /\ ps.stage = "ok"
    /\ IF step <= 0
       THEN ps' = ps
       ELSE LET hasByTime == "_time" \in seenByFields(ps)
                timeField == [name |-> "_time", bucketSize |-> step]
                dstFields == [i \in DOMAIN ps.byFields |->
                                 IF ps.byFields[i].name = "_time"
                                 THEN timeField ELSE ps.byFields[i]]
            IN  ps' = [ps EXCEPT !.byFields =
                          IF hasByTime THEN dstFields
                          ELSE Append(dstFields, timeField)]
    /\ UNCHANGED <<procVars, bk, run>>

InitParse ==
    /\ InitProcessor
    /\ cpusCount \in CpuCounts
    /\ workersCount = 1
    /\ byFieldsLen = 0
    /\ maxStateSize = stateSizeBudgetChunk
    /\ ps \in ParseInputs
    /\ bk = NoBucketRun
    /\ run = NoRun

NextParse ==
    \/ ParseStatsFunc
    \/ \E step \in Steps : AddByTimeField(step)

SpecParse == InitParse /\ [][NextParse]_vars

\* ---------------------------------------------------- bucketed by-fields

\* The float64 of a bucket size is held as hi * nsecsPerSecond + lo with
\* 0 <= lo < nsecsPerSecond: the durations in nanoseconds do not fit the
\* integers of the checker.
nsecsPerSecond == 1000000000
nsecsPerMicrosecond == 1000
nsecsPerMillisecond == 1000000
Float(n) == [hi |-> n \div nsecsPerSecond, lo |-> n % nsecsPerSecond]
Seconds(n) == [hi |-> n, lo |-> 0]
nsecsPerMinute == Seconds(60)
nsecsPerHour == Seconds(3600)
nsecsPerDay == Seconds(86400)
nsecsPerWeek == Seconds(604800)

\* the keywords of tryParseBucketSize, as bytes
Kw_nanosecond == <<110, 97, 110, 111, 115, 101, 99, 111, 110, 100>>
Kw_microsecond == <<109, 105, 99, 114, 111, 115, 101, 99, 111, 110, 100>>
Kw_millisecond == <<109, 105, 108, 108, 105, 115, 101, 99, 111, 110, 100>>
Kw_second == <<115, 101, 99, 111, 110, 100>>
Kw_minute == <<109, 105, 110, 117, 116, 101>>
Kw_hour == <<104, 111, 117, 114>>
Kw_day == <<100, 97, 121>>
Kw_week == <<119, 101, 101, 107>>

BucketFail == [ok |-> FALSE, f |-> Float(0)]

\* tryParseFloat64, on the decimal integers
tryParseFloat64(s) ==
    LET u == tryParseUint64(s)
    IN  IF u.ok THEN [ok |-> TRUE, f |-> Float(u.n)] ELSE BucketFail

\* tryParseDuration, on <digits>s, <digits>m and <digits>h: nanoseconds
tryParseDuration(s) ==
    IF Len(s) < 2 THEN BucketFail
    ELSE LET u == tryParseUint64(SubSeq(s, 1, Len(s) - 1))
             unit == s[Len(s)]
         IN  IF ~u.ok THEN BucketFail
             ELSE IF unit = 115 THEN [ok |-> TRUE, f |-> Seconds(u.n)]
             ELSE IF unit = 109 THEN [ok |-> TRUE, f |-> Seconds(60 * u.n)]
             ELSE IF unit = 104 THEN [ok |-> TRUE, f |-> Seconds(3600 * u.n)]
             ELSE BucketFail

\* tryParseBytes, on <digits>KB
tryParseBytes(s) ==
    IF Len(s) < 3 \/ SubSeq(s, Len(s) - 1, Len(s)) # <<75, 66>> THEN BucketFail
    ELSE LET u == tryParseUint64(SubSeq(s, 1, Len(s) - 2))
         IN  IF u.ok THEN [ok |-> TRUE, f |-> Float(1000 * u.n)]
             ELSE BucketFail

\* tryParseIPv4Mask, on /<bits>: the number of addresses under the mask
tryParseIPv4Mask(s) ==
    IF Len(s) < 2 \/ s[1] # 47 THEN BucketFail
    ELSE LET u == tryParseUint64(Tail(s))
         IN  IF u.ok /\ u.n >= 2 /\ u.n <= 32
             THEN [ok |-> TRUE, f |-> Float(2 ^ (32 - u.n))]
             ELSE BucketFail

\* a variant that reads a duration in seconds
tryParseBucketSize_DurationSeconds(s) ==
    LET d == tryParseDuration(s)
    IN  IF tryParseFloat64(s).ok THEN tryParseFloat64(s)
        ELSE IF d.ok THEN [ok |-> TRUE, f |-> Float(d.f.hi)]
        ELSE BucketFail

tryParseBucketSize(s) ==
    IF s = Kw_nanosecond THEN [ok |-> TRUE, f |-> Float(1)]
    ELSE IF s = Kw_microsecond THEN [ok |-> TRUE, f |-> Float(nsecsPerMicrosecond)]
    ELSE IF s = Kw_millisecond THEN [ok |-> TRUE, f |-> Float(nsecsPerMillisecond)]
    ELSE IF s = Kw_second THEN [ok |-> TRUE, f |-> Seconds(1)]
    ELSE IF s = Kw_minute THEN [ok |-> TRUE, f |-> nsecsPerMinute]
    ELSE IF s = Kw_hour THEN [ok |-> TRUE, f |-> nsecsPerHour]
    ELSE IF s = Kw_day THEN [ok |-> TRUE, f |-> nsecsPerDay]
    ELSE IF s = Kw_week THEN [ok |-> TRUE, f |-> nsecsPerWeek]
    ELSE IF tryParseFloat64(s).ok THEN tryParseFloat64(s)
    ELSE IF tryParseDuration(s).ok THEN tryParseDuration(s)
    ELSE IF tryParseBytes(s).ok THEN tryParseBytes(s)
    ELSE IF tryParseIPv4Mask(s).ok THEN tryParseIPv4Mask(s)
    ELSE BucketFail

\* the bucket sizes of the queries: 10s, 10, 25, second, 1m, 1KB, /24, x
Tok_10s == <<49, 48, 115>>
Tok_10 == <<49, 48>>
BucketTokens == {Tok_10s, Tok_10, <<50, 53>>, <<49, 109>>, <<49, 75, 66>>, <<47, 50, 52>>, <<120>>,
                 Kw_second}

\* the rows of the input: t = 0, 1, ..., NumRows - 1
NumRows == 100

\* blockResult.getBucketedValue of the number v, 0 <= v < nsecsPerSecond,
\* with offset 0: floor(v / size) * size. A size of nsecsPerSecond or more
\* exceeds v, and the bucket is 0.
getBucketedValue(v, bf) ==
    IF bf.bucketSize.hi > 0 THEN 0
    ELSE IF bf.bucketSize.lo = 0 THEN v
    ELSE (v \div bf.bucketSize.lo) * bf.bucketSize.lo

\* parseByStatsFields on `t:<token>`
BucketParse ==
    /\ bk.stage = "parse"
    /\ LET r == tryParseBucketSize(bk.bucketSizeStr)
       IN  IF ~r.ok
           THEN bk' = [bk EXCEPT !.stage = "err"]
           ELSE bk' = [bk EXCEPT !.stage = "rows", !.bucketSize = r.f]
    /\ UNCHANGED <<procVars, ps, run>>

\* updateStatsSingleColumn on the next row, with count() as n
BucketRow ==
    /\ bk.stage = "rows"
    /\ bk.t < NumRows
    /\ LET key == getBucketedValue(bk.t, bk)
           n == IF key \in DOMAIN bk.m THEN bk.m[key] ELSE 0
       IN  bk' = [bk EXCEPT !.m = Put(@, key, n + 1), !.t = @ + 1]
    /\ UNCHANGED <<procVars, ps, run>>

\* flush after the last row: one row per group
BucketFlush ==
    /\ bk.stage = "rows"
    /\ bk.t = NumRows
    /\ bk' = [bk EXCEPT !.stage = "flushed",
                 !.out = {[t |-> marshalUint64String(k), n |-> bk.m[k]] :
                              k \in DOMAIN bk.m}]
    /\ UNCHANGED <<procVars, ps, run>>

InitBucket ==
    /\ InitProcessor
    /\ cpusCount \in CpuCounts
    /\ workersCount = 1
    /\ byFieldsLen = 1
    /\ maxStateSize = 8 * stateSizeBudgetChunk
    /\ ps = NoPipe
    /\ bk \in {[stage |-> "parse", bucketSizeStr |-> tok, bucketSize |-> Float(0),
                t |-> 0, m |-> <<>>, out |-> {}] : tok \in BucketTokens}
    /\ run = NoRun

NextBucket ==
    \/ BucketParse
    \/ BucketRow
    \/ BucketFlush

SpecBucket == InitBucket /\ [][NextBucket]_vars

\* ----------------------------------------- shard.writeBlock on its own

\* the blocks of the calls: one or more rows, one or two by-fields
CacheBlocks(nb) == {br \in BlocksUpTo(nb, CacheBlockRows) : Len(br.rows) >= 1}

FreshShard == [m |-> InitGroupMap, stateSizeBudget |-> InitialShardBudget]

\* shard.writeBlock(br) on the shard as the calls before it left it
RunWriteBlock ==
    /\ run.stage = "ready"
    /\ run' = [run EXCEPT
                 !.stage = "done",
                 !.res = shardWriteBlock(run.shard, run.br, run.nb),
                 !.lookups = writeBlockLookups(run.shard, run.br, run.nb)]
    /\ UNCHANGED <<procVars, ps, bk>>

\* the next block for the same shard: the group cache is a local of the call,
\* so one call before it is what gives the shard its groups
RunNextBlock(br) ==
    /\ run.stage = "done"
    /\ run.calls = 1
    /\ run' = [run EXCEPT !.stage = "ready", !.shard = run.res, !.br = br,
                          !.calls = @ + 1]
    /\ UNCHANGED <<procVars, ps, bk>>

InitCache ==
    /\ InitProcessor
    /\ cpusCount \in CpuCounts
    /\ workersCount = 1
    /\ byFieldsLen = 1
    /\ maxStateSize = 8 * stateSizeBudgetChunk
    /\ ps = NoPipe
    /\ bk = NoBucketRun
    /\ run \in {[stage |-> "ready", nb |-> nb, shard |-> FreshShard, br |-> br,
                 res |-> FreshShard, lookups |-> 0, calls |-> 1] :
                    nb \in {1, 2}, br \in CacheBlocks(1) \cup CacheBlocks(2)}
    /\ run.br \in CacheBlocks(run.nb)

NextCache ==
    \/ RunWriteBlock
    \/ \E br \in CacheBlocks(run.nb) : RunNextBlock(br)

SpecCache == InitCache /\ [][NextCache]_vars

\* ------------------------------------- the loops of flush and stopCh

\* The goroutines of one phase of flush (scatter, merge, writers), each at
\* the top or in the body of an iteration of a loop over a sub-map. A map is
\* the entries left in its u64, negative64 and strings loops.
StopGoroutines == 2
Goroutines == 0..(StopGoroutines - 1)
MapShapes == { <<0, 0, 0>>, <<2, 0, 1>>, <<0, 1, 0>> }

\* what one goroutine iterates over: its shard's map (scatter), the maps of
\* the shards 1.. at its cpuIdx (merge, three shards), its psm (writer)
GoroutineMaps(phase) ==
    IF phase = "merge" THEN {<<a, b>> : a \in MapShapes, b \in MapShapes}
    ELSE {<<a>> : a \in MapShapes}

StartPhase(phase, maps) ==
    [stage |-> "flush", phase |-> phase,
     g |-> [i \in Goroutines |-> [pc |-> "top", maps |-> maps[i]]],
     after |-> [i \in Goroutines |-> 0],
     abandoned |-> [i \in Goroutines |-> 0]]

\* a loop that never looks at stopCh
LoopTopStops_Never(stopCh) == FALSE

\* if needStop(stopCh) { return } at the top of every iteration
LoopTopStops(stopCh) == needStop(stopCh)

SumLoops(m) == SumSeq(m)

\* goroutine i reaches the top of an iteration: a finished loop is left, a
\* finished map is left (mergeState, writeShardData or the scatter loops
\* return), and with entries left stopCh is polled; on a closed stopCh the
\* scatter goroutine and writeShardData return, and the merge goroutine goes
\* on to mergeState of the next shard
LoopTop(i) ==
    /\ run.stage = "flush"
    /\ run.phase \in {"scatter", "merge", "emit"}
    /\ run.g[i].pc = "top"
    /\ LET maps == run.g[i].maps
       IN  IF maps = <<>>
           THEN run' = [run EXCEPT !.g[i].pc = "exit"]
           ELSE IF Head(maps) = <<>>
           THEN run' = [run EXCEPT !.g[i].maps = Tail(maps)]
           ELSE IF Head(Head(maps)) = 0
           THEN run' = [run EXCEPT !.g[i].maps = <<Tail(Head(maps))>> \o Tail(maps)]
           ELSE IF LoopTopStops(stopped)
           THEN run' = [run EXCEPT
                          !.g[i].maps = IF run.phase = "merge" THEN Tail(maps)
                                        ELSE <<>>,
                          !.abandoned[i] = @ + SumLoops(Head(maps))]
           ELSE run' = [run EXCEPT !.g[i].pc = "body"]
    /\ UNCHANGED <<procVars, ps, bk>>

\* the body of the iteration: one group is scattered, merged or written
LoopBody(i) ==
    /\ run.stage = "flush"
    /\ run.g[i].pc = "body"
    /\ LET maps == run.g[i].maps
           m == Head(maps)
       IN  run' = [run EXCEPT
                     !.g[i].pc = "top",
                     !.g[i].maps = <<<<Head(m) - 1>> \o Tail(m)>> \o Tail(maps),
                     !.after[i] = IF stopped THEN @ + 1 ELSE @]
    /\ UNCHANGED <<procVars, ps, bk>>

\* wg.Wait() of the phase and what flush does after it: with stopCh closed
\* after the scatter or the merge it returns, else the next phase starts;
\* after the writers it returns
PhaseWait ==
    /\ run.stage = "flush"
    /\ run.phase \in {"scatter", "merge", "emit"}
    /\ \A i \in Goroutines : run.g[i].pc = "exit"
    /\ IF run.phase = "emit" \/ needStop(stopped)
       THEN run' = [run EXCEPT !.phase = "done"]
       ELSE LET next == IF run.phase = "scatter" THEN "merge" ELSE "emit"
            IN  \E maps \in [Goroutines -> GoroutineMaps(next)] :
                    run' = StartPhase(next, maps)
    /\ UNCHANGED <<procVars, ps, bk>>

\* stopCh is closed while flush runs
StopDuringFlush ==
    /\ run.stage = "flush"
    /\ run.phase # "done"
    /\ CloseStopCh
    /\ UNCHANGED run

InitStop ==
    /\ InitProcessor
    /\ cpusCount \in CpuCounts
    /\ workersCount = 2
    /\ byFieldsLen = 1
    /\ maxStateSize = 8 * stateSizeBudgetChunk
    /\ ps = NoPipe
    /\ bk = NoBucketRun
    /\ run \in {StartPhase("scatter", maps) :
                    maps \in [Goroutines -> GoroutineMaps("scatter")]}

NextStop ==
    \/ \E i \in Goroutines : LoopTop(i)
    \/ \E i \in Goroutines : LoopBody(i)
    \/ PhaseWait
    \/ StopDuringFlush

\* every started goroutine is scheduled until it returns, and flush goes on
\* after wg.Wait()
FairSpecStop ==
    /\ InitStop
    /\ [][NextStop]_vars
    /\ \A i \in Goroutines : WF_vars(LoopTop(i)) /\ WF_vars(LoopBody(i))
    /\ WF_vars(PhaseWait)

\* --------------------------------- more available CPUs than workers

\* the processor of a query with two workers on a host with three CPUs
InitCpus ==
    /\ InitProcessor
    /\ workersCount = 2
    /\ cpusCount \in MoreCpuCounts
    /\ byFieldsLen = 1
    /\ ps = NoPipe
    /\ bk = NoBucketRun
    /\ run = NoRun

SpecCpus == InitCpus /\ [][Next]_vars

\* ------------------ the revision of the pipe with one map per shard

\* The revision of pipe_stats.go before the typed sub-maps: each shard has one
\* map from the marshalled by-values to the group, newPipeProcessor hands every
\* shard one chunk, and flush merges, decodes and emits in its own goroutine.

SingleMapWorkerCounts == {1, 2, 3}

\* the functions of the pipe in this revision, which has no `if` filters
SingleMapFuncs == SubSeq(Funcs, 1, 2)

\* valuesLen >= 1_000_000 triggers a ppBase.writeBlock
valuesLenLimit == 1000000

\* shard.getPipeStatsGroup(key): the shard after the lookup
getPipeStatsGroup(shard, key) ==
    IF key \in DOMAIN shard.m THEN shard
    ELSE [m |-> Put(shard.m, key,
                    [sfps |-> [i \in 1..Len(SingleMapFuncs) |-> 0]]),
          stateSizeBudget |->
              shard.stateSizeBudget
                  - SumSeq([i \in 1..Len(SingleMapFuncs) |->
                               newStatsProcessorSize(SingleMapFuncs[i])])
                  - (Len(key) + sizeofString + sizeofPsgPtr
                         + sizeofStatsProcessor * Len(SingleMapFuncs))]

\* shard.stateSizeBudget -= psg.updateStatsForAllRows(br) for the group of key
SingleMapUpdate(shard, key, rows) ==
    LET r == [i \in 1..Len(SingleMapFuncs) |->
                 sfpUpdateStatsForAllRows(SingleMapFuncs[i],
                                          shard.m[key].sfps[i], rows)]
    IN [m |-> [shard.m EXCEPT ![key] =
                  [sfps |-> [i \in 1..Len(SingleMapFuncs) |-> r[i].st]]],
        stateSizeBudget |->
            shard.stateSizeBudget
                - SumSeq([i \in 1..Len(SingleMapFuncs) |-> r[i].n])]

\* the per-row loop of shard.writeBlock: the group of the row's marshalled
\* by-values, then the update for the row
RECURSIVE SingleMapRows(_, _, _)
SingleMapRows(shard, rows, i) ==
    IF i > Len(rows) THEN shard
    ELSE SingleMapRows(
             SingleMapUpdate(getPipeStatsGroup(shard, MarshalKey(rows[i].by)),
                             MarshalKey(rows[i].by), <<rows[i]>>),
             rows, i + 1)

\* shard.writeBlock(br): without by-fields all rows go to the group of the
\* empty key
SingleMapShardWriteBlock(shard, rows, nb) ==
    IF nb = 0
    THEN SingleMapUpdate(getPipeStatsGroup(shard, <<>>), <<>>, rows)
    ELSE SingleMapRows(shard, rows, 1)

\* for shard.stateSizeBudget < 0 { ... }: the two counters after the loop,
\* whether the call goes on to shard.writeBlock, whether it called cancel()
RECURSIVE SingleMapSteal(_, _)
SingleMapSteal(local, global) ==
    IF local >= 0
    THEN [local |-> local, global |-> global, ok |-> TRUE, cancel |-> FALSE]
    ELSE IF BudgetExhausted(global - stateSizeBudgetChunk)
         THEN [local |-> local, global |-> global - stateSizeBudgetChunk,
               ok |-> FALSE,
               cancel |-> CrossedZero(global - stateSizeBudgetChunk)]
         ELSE SingleMapSteal(local + stateSizeBudgetChunk,
                             global - stateSizeBudgetChunk)

\* psp.writeBlock(workerID, br)
SingleMapWriteBlock(w, br) ==
    /\ fpc = "ingest"
    /\ BagCardinality(input) + Len(br.rows) <= MaxRows
    /\ input' = AddRows(input, br.kind, br.rows)
    /\ IF Len(br.rows) = 0
       THEN UNCHANGED <<stateSizeBudget, shards, dropped, cancelCalls, stopped>>
       ELSE LET s == SingleMapSteal(shards[w].stateSizeBudget, stateSizeBudget)
                sh == [shards[w] EXCEPT !.stateSizeBudget = s.local]
            IN /\ stateSizeBudget' = s.global
               /\ shards' = [shards EXCEPT ![w] =
                                IF s.ok
                                THEN SingleMapShardWriteBlock(sh, br.rows,
                                                              byFieldsLen)
                                ELSE sh]
               /\ dropped' = IF s.ok THEN dropped ELSE dropped + 1
               /\ cancelCalls' = IF s.cancel THEN cancelCalls + 1 ELSE cancelCalls
               /\ stopped' = (stopped \/ s.cancel)
    /\ UNCHANGED <<cfgVars, flushVars, wpc, wbr, charged>>

\* the merge loop of flush: m after the maps of shards[1..i] were merged in
SingleMapMergeMaps(m, src) ==
    [k \in (DOMAIN m) \cup (DOMAIN src) |->
        IF k \notin DOMAIN src THEN m[k]
        ELSE IF k \notin DOMAIN m THEN src[k]
        ELSE [sfps |-> [i \in 1..Len(SingleMapFuncs) |->
                           sfpMergeState(SingleMapFuncs[i], m[k].sfps[i],
                                         src[k].sfps[i])]]]

RECURSIVE SingleMapMerged(_)
SingleMapMerged(i) ==
    IF i = 0 THEN shards[0].m
    ELSE SingleMapMergeMaps(SingleMapMerged(i - 1), shards[i].m)

\* the orders in which `for key, psg := range m` may visit the keys
KeyOrders(S) ==
    {ord \in [1..Cardinality(S) -> S] :
        \A i, j \in 1..Cardinality(S) : i # j => ord[i] # ord[j]}

\* the emit loop of flush and the ppBase.writeBlock(0, &br) after it: the
\* blocks passed on
RECURSIVE SingleMapEmit(_, _, _, _, _)
SingleMapEmit(m, ord, i, rows, valuesLen) ==
    IF i > Len(ord) THEN << [workerID |-> 0, rows |-> rows] >>
    ELSE LET values == UnmarshalKey(ord[i])
             row == [by |-> values, vals |-> m[ord[i]].sfps]
             n == valuesLen
                    + SumSeq([k \in 1..Len(values) |-> Len(values[k])])
                    + SumSeq([k \in 1..Len(SingleMapFuncs) |->
                                 finalizeLen(SingleMapFuncs[k],
                                             m[ord[i]].sfps[k])])
         IN IF n >= valuesLenLimit
            THEN << [workerID |-> 0, rows |-> Append(rows, row)] >>
                     \o SingleMapEmit(m, ord, i + 1, <<>>, 0)
            ELSE SingleMapEmit(m, ord, i + 1, Append(rows, row), n)

\* psp.flush(). After `shards = shards[1:]` the special case for zero rows
\* indexes shards[0], which is psp.shards[1]: with one worker the slice is
\* empty and the index panics.
SingleMapFlush ==
    /\ fpc = "ingest"
    /\ fpc' = "done"
    /\ stopAtFlush' = stopped
    /\ LET m == SingleMapMerged(workersCount - 1)
           interrupted == needStop(stopped) /\
                              \E i \in 1..(workersCount - 1) :
                                  DOMAIN shards[i].m # {}
           special == byFieldsLen = 0 /\ DOMAIN m = {}
       IN IF FlushBudgetError(stateSizeBudget)
          THEN flushErr' = "budget" /\ UNCHANGED <<shards, nextCalls>>
          ELSE IF interrupted
          THEN flushErr' = "nil" /\ UNCHANGED <<shards, nextCalls>>
          ELSE IF special /\ workersCount = 1
          THEN flushErr' = "panic" /\ UNCHANGED <<shards, nextCalls>>
          ELSE LET out == IF special
                          THEN getPipeStatsGroup(shards[1], <<>>).m ELSE m
               IN /\ shards' = [w \in Workers |->
                                   IF special /\ w = 1
                                   THEN getPipeStatsGroup(shards[1], <<>>)
                                   ELSE IF w = 0
                                        THEN [shards[0] EXCEPT !.m = m]
                                        ELSE shards[w]]
                  /\ flushErr' = "nil"
                  /\ IF needStop(stopped) /\ DOMAIN out # {}
                     THEN UNCHANGED nextCalls
                     ELSE \E ord \in KeyOrders(DOMAIN out) :
                              nextCalls' = [j \in {0} |->
                                  SingleMapEmit(out, ord, 1, <<>>, 0)]
    /\ UNCHANGED <<cfgVars, stateSizeBudget, cancelCalls, wpc, wbr, input,
                   dropped, charged, stopped, spc, perShardMaps, mpc, psms,
                   writers>>

\* stopCh is closed from outside
SingleMapStop == CloseStopCh

\* newPipeProcessor of this revision: every shard starts with one chunk, taken
\* off maxStateSize
InitSingleMap ==
    /\ workersCount \in SingleMapWorkerCounts
    /\ cpusCount \in CpuCounts
    /\ byFieldsLen \in ByFieldCounts
    /\ \E allowed \in MaxStateSizes :
           maxStateSize = allowed - stateSizeBudgetChunk * workersCount
    /\ stateSizeBudget = maxStateSize
    /\ shards = [w \in Workers |-> [m |-> <<>>,
                                     stateSizeBudget |-> stateSizeBudgetChunk]]
    /\ stopped = FALSE
    /\ cancelCalls = 0
    /\ wpc = [w \in Workers |-> "idle"]
    /\ wbr = [w \in Workers |-> NoBlock]
    /\ input = EmptyBag
    /\ dropped = 0
    /\ charged = [w \in Workers |-> 0]
    /\ stopAtFlush = FALSE
    /\ fpc = "ingest"
    /\ flushErr = "none"
    /\ spc = <<>>
    /\ perShardMaps = <<>>
    /\ mpc = <<>>
    /\ psms = <<>>
    /\ writers = <<>>
    /\ nextCalls = <<>>
    /\ ps = NoPipe
    /\ bk = NoBucketRun
    /\ run = NoRun

NextSingleMap ==
    \/ \E w \in Workers :
           \E br \in {b \in Blocks(byFieldsLen) : b.kind = "string"} :
               SingleMapWriteBlock(w, br)
    \/ SingleMapFlush
    \/ SingleMapStop

SpecSingleMap == InitSingleMap /\ [][NextSingleMap]_vars

\* ------------------------------------------------------- observation helpers

Range(f) == {f[x] : x \in DOMAIN f}

SeqToBag(q) == [x \in Range(q) |-> Cardinality({i \in DOMAIN q : q[i] = x})]

RECURSIVE BlocksRows(_)
BlocksRows(blocks) ==
    IF blocks = <<>> THEN <<>> ELSE Head(blocks).rows \o BlocksRows(Tail(blocks))

\* the rows the writers 0..j-1 have passed to the next pipe
RECURSIVE EmittedUpTo(_)
EmittedUpTo(j) ==
    IF j = 0 THEN <<>> ELSE EmittedUpTo(j - 1) \o BlocksRows(nextCalls[j - 1])

EmittedRows == EmittedUpTo(Cardinality(DOMAIN nextCalls))

NoNextCalls == \A j \in DOMAIN nextCalls : nextCalls[j] = <<>>

\* the blocks passed to the next pipe so far
NextBlocks == UNION {Range(nextCalls[j]) : j \in DOMAIN nextCalls}

\* flush has returned nil after a run without a dropped block and without a
\* closed stopCh
CleanDone == fpc = "done" /\ flushErr = "nil" /\ dropped = 0 /\ ~stopped

InputRows == BagToSet(input)

\* the value a by-value stands for: an integer by its decimal form, any other
\* string by itself
CanonValue(v) ==
    IF tryParseInt64(v).ok THEN marshalInt64String(tryParseInt64(v).n) ELSE v

CanonKey(by) == [i \in 1..Len(by) |-> CanonValue(by[i])]

InputKeys == {CanonKey(r.by) : r \in InputRows}

\* ---------------------------------------------------------------- claims

\* C1 (as stated): after a run without budget exhaustion and without
\* cancellation, the rows passed to the next pipe hold exactly one row per
\* distinct grouping key of the input (none missing, none twice, also across
\* the three sub-maps), and the count() of each row is the number of input
\* rows with its key, so the counts sum to the number of input rows.
C1_OneRowPerKey ==
    (CleanDone /\ byFieldsLen = 1 /\ InputRows # {}) =>
        /\ \A i, j \in DOMAIN EmittedRows :
               EmittedRows[i].by = EmittedRows[j].by => i = j
        /\ {EmittedRows[i].by : i \in DOMAIN EmittedRows} = InputKeys
        /\ \A i \in DOMAIN EmittedRows :
               EmittedRows[i].vals[1] =
                   BagCardinality([r \in {x \in InputRows :
                                             CanonKey(x.by) = EmittedRows[i].by}
                                      |-> input[r]])
        /\ SumSeq([i \in DOMAIN EmittedRows |-> EmittedRows[i].vals[1]])
               = BagCardinality(input)

\* the group a row belongs to, from its by-values alone: the sub-map and the
\* by-values the group is written with
RefGroup(by) ==
    IF Len(by) # 1 THEN [kind |-> "strings", by |-> by]
    ELSE LET v == by[1]
         IN IF tryParseUint64(v).ok
            THEN [kind |-> "u64", by |-> <<marshalUint64String(tryParseUint64(v).n)>>]
            ELSE IF Len(v) > 0 /\ v[1] = 45 /\ tryParseInt64(v).ok
                 THEN [kind |-> "negative64",
                       by |-> <<marshalInt64String(tryParseInt64(v).n)>>]
                 ELSE [kind |-> "strings", by |-> by]

RefGroups ==
    IF byFieldsLen = 0 THEN {RefGroup(<<>>)} ELSE {RefGroup(r.by) : r \in InputRows}

\* the number of input rows in the set S of distinct rows, and the sum of the
\* lengths of their values(d) inputs
RECURSIVE CountRows(_)
CountRows(S) ==
    IF S = {} THEN 0
    ELSE LET x == CHOOSE y \in S : TRUE IN input[x] + CountRows(S \ {x})

RECURSIVE BytesRows(_)
BytesRows(S) ==
    IF S = {} THEN 0
    ELSE LET x == CHOOSE y \in S : TRUE IN input[x] * x.d + BytesRows(S \ {x})

\* the row of the group g computed from the whole input at once: the number
\* of its rows, the bytes of their d values, the number of its rows with a
\* non-empty d
RefRow(g) ==
    LET rs == {r \in InputRows : RefGroup(r.by) = g}
    IN [by |-> g.by,
        vals |-> <<CountRows(rs), BytesRows(rs),
                   CountRows({r \in rs : r.d > 0})>>]

RECURSIVE RefBag(_)
RefBag(G) ==
    IF G = {} THEN EmptyBag
    ELSE LET g == CHOOSE y \in G : TRUE
         IN SetToBag({RefRow(g)}) (+) RefBag(G \ {g})

\* C2: the rows passed to the next pipe after a run without budget exhaustion
\* and without cancellation are, as a multiset, the rows computed from the
\* whole input at once, however the blocks were spread over the shards; with
\* one shard (where the merge returns the shard's own map) the result is the
\* same.
C2_ShardInvariance ==
    CleanDone => SeqToBag(EmittedRows) = RefBag(RefGroups)

\* two shards, and a group whose rows were merged from more than one block
C2_Witness ==
    /\ CleanDone
    /\ workersCount = 2
    /\ \A w \in Workers : charged[w] > 0
    /\ Len(EmittedRows) >= 2
    /\ \E i \in DOMAIN EmittedRows : EmittedRows[i].vals[1] >= 3

\* the bytes charged for state by all the shards
RECURSIVE ChargedUpTo(_)
ChargedUpTo(w) == IF w = 0 THEN 0 ELSE ChargedUpTo(w - 1) + charged[w - 1]

TotalCharged == ChargedUpTo(workersCount)

\* stopCh was closed from outside and not by cancel()
ExternalStop == stopped /\ cancelCalls = 0

\* C3 (as stated): if the state charged by the written blocks goes beyond
\* maxStateSize, flush returns the budget error and makes no call to the
\* next pipe.
C3_BudgetSafety ==
    (fpc = "done" /\ ~ExternalStop /\ TotalCharged > maxStateSize) =>
        (flushErr = "budget" /\ NoNextCalls)

\* C3 (amended): if the subtraction of some writeBlock call left the global
\* counter below zero, flush returns the budget error and makes no call to
\* the next pipe; the state charged by a shard after its last draw is not
\* counted.
C3_BudgetSafetyDetected ==
    (fpc = "done" /\ dropped > 0) => (flushErr = "budget" /\ NoNextCalls)

C3_Witness ==
    /\ fpc = "done"
    /\ dropped > 0
    /\ TotalCharged > maxStateSize
    /\ \E w \in Workers : entriesCount(shards[w].m) > 0

\* C4: flush called with the global counter at or below zero returns the
\* budget error, and whenever flush returns the budget error it has made no
\* call to the next pipe.
C4_FlushBudgetError ==
    /\ (fpc # "ingest" /\ stateSizeBudget <= 0) =>
           (fpc = "done" /\ flushErr = "budget")
    /\ flushErr = "budget" => NoNextCalls

\* flush returned the budget error on a counter of exactly zero, with groups
\* in the shard
C4_Witness ==
    /\ fpc = "done"
    /\ flushErr = "budget"
    /\ stateSizeBudget = 0
    /\ \E w \in Workers : entriesCount(shards[w].m) > 0

\* C5: with stopCh closed before flush is called, flush returns nil without
\* a call to the next pipe when the global counter is above zero, and
\* returns the budget error, not nil, when the stop came from cancel() on an
\* exhausted budget; with one shard and with several.
C5_StopBeforeFlush ==
    fpc = "done" =>
        /\ (stopAtFlush /\ stateSizeBudget > 0) =>
               (flushErr = "nil" /\ NoNextCalls)
        /\ cancelCalls > 0 => (flushErr = "budget" /\ NoNextCalls)

\* several shards holding groups, stopCh closed before flush, budget left
C5_Witness ==
    /\ fpc = "done"
    /\ stopAtFlush
    /\ stateSizeBudget > 0
    /\ workersCount = 2
    /\ \A w \in Workers : charged[w] > 0

\* C6 (as stated): once stopCh is closed while flush is in its emit phase,
\* no further call to the next pipe is made, neither for the groups left nor
\* for the rows already buffered, and flush returns nil.
C6_NoCallAfterStop ==
    /\ [][(fpc = "emit" /\ stopped) => nextCalls' = nextCalls]_vars
    /\ [](fpc = "done" /\ stopped /\ stateSizeBudget > 0 => flushErr = "nil")

\* C7 (as stated): every block the stats writer passes to the next pipe has
\* at least one row.
C7_NoZeroRowBlock == \A b \in NextBlocks : b.rowsLen >= 1

C9_CancelOnce ==
    LET pending == Cardinality({w \in Workers : wpc[w] = "cancel"})
    IN cancelCalls + pending = IF stateSizeBudget < 0 THEN 1 ELSE 0

\* cancel() was invoked once although several calls found the budget
\* exhausted
C9_Witness == cancelCalls = 1 /\ dropped >= 2 /\ workersCount = 2

\* C10 (as stated): whenever flush returns the budget error, an earlier
\* writeBlock call has invoked cancel().
C10_CancelBeforeBudgetError == flushErr = "budget" => cancelCalls >= 1

\* C11 (as stated): a writeBlock call that starts after stopCh was closed
\* creates no group and updates no accumulator in any shard, whatever the
\* local counter of its shard.
C11_NoUpdateAfterStop ==
    [][(stopped /\ input' # input) =>
           \A w \in Workers : shards'[w].m = shards[w].m]_vars

\* C12: after a flush of a processor that was given no rows, with no
\* by-fields exactly one row is passed to the next pipe, with count 0, for one
\* worker and for several; with a by-field no row is passed and no call to
\* the next pipe is made.
C12_EmptyInput ==
    (CleanDone /\ input = EmptyBag) =>
        IF byFieldsLen = 0
        THEN /\ Len(EmittedRows) = 1
             /\ EmittedRows[1].by = <<>>
             /\ EmittedRows[1].vals[1] = 0
        ELSE NoNextCalls

\* several workers, no by-fields, no rows: the one row was written
C12_Witness ==
    /\ CleanDone
    /\ input = EmptyBag
    /\ byFieldsLen = 0
    /\ workersCount = 2
    /\ Len(EmittedRows) = 1

C17_WorkerID ==
    /\ \A j \in DOMAIN nextCalls :
           \A k \in DOMAIN nextCalls[j] :
               nextCalls[j][k].workerID = writers[j].workerID
    /\ \A j, k \in DOMAIN writers :
           writers[j].workerID = writers[k].workerID => j = k

\* two writers, each of which has made a call with rows
C17_Witness ==
    /\ Cardinality(DOMAIN writers) = 2
    /\ \A j \in DOMAIN nextCalls :
           Len(nextCalls[j]) >= 1 /\ nextCalls[j][1].rowsLen >= 1

\* the map entry of the group g of RefGroups
RefEntry(g) ==
    IF g.kind = "strings"
    THEN [kind |-> "strings",
          key |-> IF Len(g.by) = 1 THEN g.by[1] ELSE MarshalKey(g.by)]
    ELSE [kind |-> g.kind, key |-> <<tryParseInt64(g.by[1]).n>>]

HasEntry(m, r) ==
    IF r.kind = "u64" THEN r.key[1] \in DOMAIN m.u64
    ELSE IF r.kind = "negative64" THEN r.key[1] \in DOMAIN m.negative64
    ELSE r.key \in DOMAIN m.strings

\* the state of function i of the group g, summed over the shards 0..w-1
RECURSIVE AccUpTo(_, _, _)
AccUpTo(w, g, i) ==
    IF w = 0 THEN 0
    ELSE AccUpTo(w - 1, g, i)
             + (IF HasEntry(shards[w - 1].m, RefEntry(g))
                THEN GroupAt(shards[w - 1].m, RefEntry(g)).sfps[i]
                ELSE 0)

\* C14: while blocks are written, the accumulator of a function with an
\* `if` filter has seen exactly the rows of its group whose filter bit is
\* set, in the all-rows path and in the per-row path, and the accumulator of
\* a function without a filter has seen every row of its group, whatever
\* the filters of the other functions.
C14_PerFunctionFilters ==
    (fpc = "ingest" /\ dropped = 0 /\ \A w \in Workers : wpc[w] = "idle") =>
        \A g \in {RefGroup(r.by) : r \in InputRows} :
            \A i \in 1..Len(Funcs) :
                LET rs == {r \in InputRows : RefGroup(r.by) = g}
                    sel == IF Funcs[i].iff THEN {r \in rs : r.d > 0} ELSE rs
                IN AccUpTo(workersCount, g, i) =
                       IF Funcs[i].f = "count" THEN CountRows(sel)
                       ELSE BytesRows(sel)

\* a group that the all-rows path has updated with rows the filter selects
\* and rows it does not: the unfiltered count is ahead of the filtered one
C14_Witness ==
    /\ fpc = "ingest" /\ dropped = 0 /\ \A w \in Workers : wpc[w] = "idle"
    /\ byFieldsLen = 0
    /\ \E w \in Workers :
           /\ <<>> \in DOMAIN shards[w].m.strings
           /\ shards[w].m.strings[<<>>].sfps[1] >= 2
           /\ shards[w].m.strings[<<>>].sfps[3] = 1

\* every group map of the state: the shards' maps, the perCPU maps of the
\* scatter and the merge, the maps handed to the writers and what the writers
\* have left of them
AllMaps ==
    {shards[w].m : w \in Workers}
        \cup UNION {Range(perShardMaps[i]) : i \in DOMAIN perShardMaps}
        \cup Range(psms)
        \cup {writers[j].todo : j \in DOMAIN writers}

\* C15 (as stated): with one by-field, a key kept in the negative64 map is
\* written as a negative number and a key kept in the u64 map as a
\* non-negative number, in the shards and in every map of the scatter, the
\* merge and the writers.
C15_SignPreserved ==
    byFieldsLen = 1 =>
        \A m \in AllMaps :
            /\ \A n \in DOMAIN m.negative64 :
                   /\ n < 0
                   /\ KeyValues([kind |-> "negative64", key |-> <<n>>], 1)[1][1] = 45
            /\ \A n \in DOMAIN m.u64 :
                   /\ n >= 0
                   /\ KeyValues([kind |-> "u64", key |-> <<n>>], 1)[1][1] # 45

\* the result names of the text of the parsed pipe
TextResultNames == [i \in DOMAIN ps.text |-> ResultNameOf(ps.text[i])]
\* the text uses a result name twice, or a by-field name as a result name
TextHasClash ==
    \/ \E i, j \in DOMAIN ps.text :
           i # j /\ TextResultNames[i] = TextResultNames[j]
    \/ \E i \in DOMAIN ps.text : TextResultNames[i] \in seenByFields(ps)

\* C16 (as stated): parsePipeStats fails exactly on the texts that use a
\* result name twice (written or default) or use a by-field name as a result
\* name, and in every parsed pipe, also after any addByTimeField call, the
\* result names are pairwise distinct and none of them is a by-field name.
C16_ResultNamesDistinct ==
    /\ ps.stage = "err" => TextHasClash
    /\ ps.stage = "ok" =>
           /\ \A i, j \in DOMAIN ps.funcs :
                  i # j => ps.funcs[i].resultName # ps.funcs[j].resultName
           /\ \A i \in DOMAIN ps.funcs :
                  ps.funcs[i].resultName \notin seenByFields(ps)

\* C18 (as stated): the rows t = 0..99 under `stats by (t:10s) count() as n`
\* come out as exactly 10 rows, each with n = 10.
C18_TenRowsOfTen ==
    (bk.stage = "flushed" /\ bk.bucketSizeStr = Tok_10s) =>
        /\ Cardinality(bk.out) = 10
        /\ \A r \in bk.out : r.n = 10

\* C18 (amended): `10s` is parsed as 10 seconds in nanoseconds, so the rows
\* t = 0..99 fall into the one bucket 0 and come out as one row with n = 100;
\* it is the bucket size `10` that gives the 10 rows t = 0, 10, ..., 90 with
\* n = 10 each.
C18_TenSecondsIsOneBucket ==
    bk.stage = "flushed" =>
        /\ bk.bucketSizeStr = Tok_10s =>
               bk.out = {[t |-> marshalUint64String(0), n |-> NumRows]}
        /\ bk.bucketSizeStr = Tok_10 =>
               bk.out = {[t |-> marshalUint64String(10 * i), n |-> 10] :
                             i \in 0..9}

C18_Witness ==
    /\ bk.stage = "flushed"
    /\ bk.bucketSizeStr = Tok_10s
    /\ bk.bucketSize = Seconds(10)
    /\ Cardinality(bk.out) = 1

\* the local counters of the shards 0..w-1, summed
RECURSIVE LocalUpTo(_)
LocalUpTo(w) ==
    IF w = 0 THEN 0 ELSE LocalUpTo(w - 1) + shards[w - 1].stateSizeBudget

\* the global counter, the local counters and the bytes charged, together
BudgetTotal == stateSizeBudget + LocalUpTo(workersCount) + TotalCharged

NoCallInProgress == \A w \in Workers : wpc[w] = "idle"

\* C19 (as stated): whenever no writeBlock call is in progress, the global
\* counter plus the shards' local counters plus the bytes the shards have
\* charged equals maxStateSize, also after calls that hit exhaustion.
C19_BudgetConserved == NoCallInProgress => BudgetTotal = maxStateSize

\* C19 (amended): whenever no writeBlock call is in progress, the global
\* counter plus the shards' local counters plus the bytes charged equals
\* maxStateSize minus one stateSizeBudgetChunk per writeBlock call that
\* returned on an exhausted budget: the chunk of the failed draw is taken
\* from the global counter and credited to no shard.
C19_BudgetConservedUpToFailedDraws ==
    NoCallInProgress =>
        BudgetTotal = maxStateSize - stateSizeBudgetChunk * dropped

\* calls have charged state, a later call has hit exhaustion, all returned
C19_Witness ==
    /\ NoCallInProgress
    /\ dropped > 0
    /\ TotalCharged > 0
    /\ \E w \in Workers : shards[w].stateSizeBudget > 0

\* newPipeProcessor has returned and no writeBlock call has started yet
FreshProcessor ==
    /\ fpc = "ingest"
    /\ NoCallInProgress
    /\ BagCardinality(input) = 0
    /\ dropped = 0
    /\ TotalCharged = 0

\* C20 (as stated): right after newPipeProcessor returns, the local counter
\* of every shard equals stateSizeBudgetChunk.
C20_ShardStartsWithChunk ==
    FreshProcessor =>
        \A w \in Workers : shards[w].stateSizeBudget = stateSizeBudgetChunk

\* C21 (as stated): in every group map of the ingestion, the scatter and the
\* merge, no key of the negative64 sub-map is a non-negative integer and no
\* key of the u64 sub-map is a negative integer, however the key arrived.
C21_SignPartition ==
    \A m \in AllMaps :
        /\ \A n \in DOMAIN m.negative64 : n < 0
        /\ \A n \in DOMAIN m.u64 : n >= 0

\* C22: when the number of by-fields is not 1, the u64 and negative64
\* sub-maps of every shard map, every per-CPU map and every writer's map are
\* empty, and the entries the writer reads are entries of the strings
\* sub-map.
C22_OnlyStrings ==
    byFieldsLen # 1 =>
        /\ \A m \in AllMaps : DOMAIN m.u64 = {} /\ DOMAIN m.negative64 = {}
        /\ \A j \in DOMAIN writers :
               \A r \in WriterNext(writers[j].todo, byFieldsLen) :
                   r.kind = "strings"

\* two by-fields whose first value is a number: the groups of two shards are
\* scattered, merged and handed to a writer, all in strings sub-maps
C22_Witness ==
    /\ byFieldsLen = 2
    /\ workersCount = 2
    /\ fpc = "emit"
    /\ \E j \in DOMAIN writers :
           MarshalKey(<< <<48>>, <<45, 49>> >>) \in DOMAIN writers[j].todo.strings

\* the groups of a map
GroupsOf(m) ==
    {m.u64[k] : k \in DOMAIN m.u64}
        \cup {m.negative64[k] : k \in DOMAIN m.negative64}
        \cup {m.strings[k] : k \in DOMAIN m.strings}

\* C23: every group of every map has len(funcs) accumulators and the i-th is
\* the one of funcs[i], through updates, scatter and merge: the accumulator
\* of count() holds a row count that the filtered count() does not exceed,
\* and the accumulator of values(d) holds the bytes of exactly the rows the
\* filtered count() has counted.
C23_AccumulatorAlignment ==
    \A m \in AllMaps :
        \A g \in GroupsOf(m) :
            /\ Len(g.sfps) = Len(Funcs)
            /\ g.sfps[3] <= g.sfps[1]
            /\ g.sfps[2] = BigValueLen * g.sfps[3]

\* the group of the empty key was created in both shards and updated with
\* rows the filter selects and rows it does not, and the merged group is
\* with a writer
C23_Witness ==
    /\ byFieldsLen = 0
    /\ workersCount = 2
    /\ fpc = "emit"
    /\ charged[0] > BigValueLen
    /\ charged[1] > BigValueLen
    /\ \E j \in DOMAIN writers :
           /\ <<>> \in DOMAIN writers[j].todo.strings
           /\ writers[j].todo.strings[<<>>].sfps[3] = 2
           /\ writers[j].todo.strings[<<>>].sfps[1] >= 3

\* the entries of a map: the kind of sub-map and the key
MapRefs(m) ==
    {[kind |-> "u64", key |-> <<n>>] : n \in DOMAIN m.u64}
        \cup {[kind |-> "negative64", key |-> <<n>>] : n \in DOMAIN m.negative64}
        \cup {[kind |-> "strings", key |-> k] : k \in DOMAIN m.strings}

\* scatter goroutine idx has run to its end in this step
ScatterCompletes(idx) ==
    /\ fpc = "scatter"
    /\ spc[idx] = "run"
    /\ spc'[idx] = "done"
    /\ perShardMaps'[idx] # <<>>

\* C24: a scatter goroutine that is not interrupted leaves every group of its
\* shard in exactly one of the shard's per-CPU maps, under the same key and
\* in the same kind of sub-map, and leaves nothing else there; equal keys of
\* different shards are at the same cpuIdx; the shard's sub-maps are cleared.
C24_ScatterPartition ==
    [][\A idx \in Workers :
          ScatterCompletes(idx) =>
              LET src == shards[idx].m
                  dst == perShardMaps'[idx]
                  Cpus == 0..(cpusCount - 1)
              IN  /\ DOMAIN dst = Cpus
                  /\ \A r \in MapRefs(src) :
                         /\ Cardinality({c \in Cpus : HasEntry(dst[c], r)}) = 1
                         /\ \A c \in Cpus :
                                HasEntry(dst[c], r) =>
                                    GroupAt(dst[c], r) = GroupAt(src, r)
                  /\ \A c \in Cpus : MapRefs(dst[c]) \subseteq MapRefs(src)
                  /\ entriesCount(shards'[idx].m) = 0
                  /\ \A j \in Workers :
                         perShardMaps'[j] # <<>> =>
                             \A c, c2 \in Cpus :
                                 (MapRefs(dst[c]) \cap
                                      MapRefs(perShardMaps'[j][c2]) # {}) => c = c2
      ]_vars

\* both shards are scattered: they share a key, and the groups of shard 0
\* are spread over two per-CPU maps
C24_Witness ==
    /\ fpc = "scatter"
    /\ workersCount = 2
    /\ \A i \in Workers : spc[i] = "done" /\ perShardMaps[i] # <<>>
    /\ entriesCount(perShardMaps[0][0]) > 0
    /\ entriesCount(perShardMaps[0][1]) > 0
    /\ \E c \in 0..(cpusCount - 1) :
           MapRefs(perShardMaps[0][c]) \cap MapRefs(perShardMaps[1][c]) # {}
    /\ \A w \in Workers : entriesCount(shards[w].m) = 0

\* accumulator i of the entry r, summed over the maps of the shards 0..w-1 at
\* cpuIdx
RECURSIVE AccAtCpuUpTo(_, _, _, _)
AccAtCpuUpTo(w, cpuIdx, r, i) ==
    IF w = 0 THEN 0
    ELSE AccAtCpuUpTo(w - 1, cpuIdx, r, i)
             + (IF HasEntry(perShardMaps[w - 1][cpuIdx], r)
                THEN GroupAt(perShardMaps[w - 1][cpuIdx], r).sfps[i]
                ELSE 0)

\* merge goroutine cpuIdx has run to its end in this step, stopCh open
MergeCompletes(cpuIdx) ==
    /\ fpc = "merge"
    /\ mpc[cpuIdx] = "run"
    /\ mpc'[cpuIdx] = "done"
    /\ ~stopped

\* C25: a merge goroutine that is not interrupted leaves in
\* perShardMaps[0][cpuIdx] the union of the keys of all shards' maps at
\* cpuIdx; a key of several shards has one group holding, per function, the
\* accumulators of all those shards merged once each, and a key of a single
\* shard keeps that shard's group.
C25_MergeUnion ==
    [][\A cpuIdx \in 0..(cpusCount - 1) :
          MergeCompletes(cpuIdx) =>
              LET dst == perShardMaps'[0][cpuIdx]
                  refs == UNION {MapRefs(perShardMaps[w][cpuIdx]) : w \in Workers}
              IN  /\ MapRefs(dst) = refs
                  /\ \A r \in refs :
                         LET holders == {w \in Workers :
                                            HasEntry(perShardMaps[w][cpuIdx], r)}
                         IN  /\ Len(GroupAt(dst, r).sfps) = Len(Funcs)
                             /\ \A i \in 1..Len(Funcs) :
                                    GroupAt(dst, r).sfps[i] =
                                        AccAtCpuUpTo(workersCount, cpuIdx, r, i)
                             /\ \A w \in holders :
                                    holders = {w} =>
                                        GroupAt(dst, r) =
                                            GroupAt(perShardMaps[w][cpuIdx], r)
      ]_vars

\* the merge has ended: both shards had charged state, and the merged maps
\* hold one key whose group has counted every row of the input
C25_Witness ==
    /\ fpc = "merge"
    /\ workersCount = 2
    /\ ~stopped
    /\ dropped = 0
    /\ \A c \in 0..(cpusCount - 1) : mpc[c] = "done"
    /\ charged[0] > 0
    /\ charged[1] > 0
    /\ \E c \in 0..(cpusCount - 1) :
           /\ \A c2 \in 0..(cpusCount - 1) :
                  entriesCount(perShardMaps[0][c2]) = IF c2 = c THEN 1 ELSE 0
           /\ \A g \in GroupsOf(perShardMaps[0][c]) :
                  g.sfps[1] = BagCardinality(input) /\ g.sfps[1] >= 3

\* the group of the key of row i is looked up and updated, for every row
RECURSIVE LookupEveryRow(_, _, _, _)
LookupEveryRow(shard, br, i, nb) ==
    IF i > Len(br.rows) THEN shard
    ELSE LET g == IF nb = 1
                  THEN LookupSingleColumn(shard,
                           IF br.kind = "const" THEN "string" ELSE br.kind,
                           br.rows[i].by[1])
                  ELSE getPipeStatsGroupString(shard, MarshalKey(br.rows[i].by))
         IN LookupEveryRow(UpdateRow(g, br.rows, i), br, i + 1, nb)

\* the runs of consecutive rows with equal by-values
Runs(rows) ==
    Cardinality({i \in 1..Len(rows) : i = 1 \/ rows[i - 1].by # rows[i].by})

\* C26: shard.writeBlock with its cached group leaves the shard as a lookup
\* of the group of every row's own key followed by the update of that row
\* does, for typed integer columns, the generic single-column path and the
\* multi-column path, and it calls getPipeStatsGroup* once per run of equal
\* by-values.
C26_CacheIsLookup ==
    run.stage = "done" =>
        /\ run.res = LookupEveryRow(run.shard, run.br, 1, run.nb)
        /\ run.lookups = Runs(run.br.rows)

\* a block whose third row repeats the key of the first after another key,
\* on a shard that holds groups from the call before
C26_Witness ==
    /\ run.stage = "done"
    /\ run.calls = 2
    /\ entriesCount(run.shard.m) >= 2
    /\ Len(run.br.rows) = 3
    /\ run.br.rows[1].by = run.br.rows[3].by
    /\ run.br.rows[1].by # run.br.rows[2].by
    /\ run.lookups = 3

\* the by-value tuples of the rows written so far
InputTuples == {r.by : r \in InputRows}

\* C27: with two by-fields (and with none, where the key is empty) every key
\* of every map decodes without a BUG panic into len(byFields) values, which
\* are the values of an input row in declaration order and encode back to
\* the key; distinct value tuples have distinct keys; the writer never
\* panics and emits the decoded values.
C27_KeyRoundTrip ==
    byFieldsLen # 1 =>
        /\ flushErr # "panic"
        /\ \A m \in AllMaps :
               \A k \in DOMAIN m.strings :
                   /\ ~WriterPanics(UnmarshalKey(k), byFieldsLen)
                   /\ MarshalKey(UnmarshalKey(k)) = k
                   /\ byFieldsLen >= 2 => UnmarshalKey(k) \in InputTuples
        /\ \A t \in InputTuples : UnmarshalKey(MarshalKey(t)) = t
        /\ \A t1, t2 \in InputTuples : t1 # t2 => MarshalKey(t1) # MarshalKey(t2)
        /\ \A i \in DOMAIN EmittedRows :
               /\ Len(EmittedRows[i].by) = byFieldsLen
               /\ byFieldsLen >= 2 => EmittedRows[i].by \in InputTuples

\* flush has written the groups of ("", "a") and of ("a", ""), whose values
\* concatenate to the same bytes
C27_Witness ==
    /\ byFieldsLen = 2
    /\ fpc = "done"
    /\ flushErr = "nil"
    /\ \E i, j \in DOMAIN EmittedRows :
           /\ EmittedRows[i].by = << <<>>, <<97>> >>
           /\ EmittedRows[j].by = << <<97>>, <<>> >>

\* the row writePipeStatsGroup writes for the entry r of the map m
WrittenRow(m, r) ==
    [by |-> KeyValues(r, byFieldsLen), vals |-> GroupAt(m, r).sfps]

\* how often the row x occurs in the sequence rows
Occurrences(rows, x) == Cardinality({i \in DOMAIN rows : rows[i] = x})

\* C28: after each writePipeStatsGroup call the pending bytes of a writer are
\* below 64_000 and its pending rows, row count and column values agree
\* (all empty after an emit); without cancellation every group of the
\* writer's map is at any time either still to be visited, pending, or in
\* one emitted row, and when the writer is done every group is in exactly
\* one emitted row.
C28_ThresholdAndExactlyOnce ==
    \A j \in DOMAIN writers :
        LET psw == writers[j]
            emitted == BlocksRows(nextCalls[j])
            m == psms[j + 1]
        IN  /\ psw.resultLen < resultLenLimit
            /\ psw.rowsCount = Len(psw.rows)
            /\ \A i \in DOMAIN psw.rcs : Len(psw.rcs[i].values) = psw.rowsCount
            /\ psw.resultLen = 0 <=> psw.rowsCount = 0
            /\ ~stopped =>
                   /\ Len(emitted) + Len(psw.rows) + entriesCount(psw.todo)
                          = entriesCount(m)
                   /\ MapRefs(psw.todo) \subseteq MapRefs(m)
                   /\ \A r \in MapRefs(m) \ MapRefs(psw.todo) :
                          Occurrences(emitted \o psw.rows, WrittenRow(m, r)) =
                              Cardinality({r2 \in MapRefs(m) \ MapRefs(psw.todo) :
                                              WrittenRow(m, r2) = WrittenRow(m, r)})
                   /\ psw.done =>
                          /\ Len(emitted) = entriesCount(m)
                          /\ psw.rows = <<>>

\* a writer without cancellation has emitted a block at the threshold and
\* further rows after it, and is done
C28_Witness ==
    /\ fpc = "done"
    /\ flushErr = "nil"
    /\ ~stopped
    /\ \E j \in DOMAIN writers :
           /\ writers[j].done
           /\ Len(nextCalls[j]) >= 2
           /\ nextCalls[j][1].rowsLen >= 1
           /\ nextCalls[j][2].rowsLen >= 1
           /\ entriesCount(psms[j + 1]) >= 2

\* C29: once stopCh is closed no loop of flush starts the body of a further
\* iteration, so every goroutine completes at most the one group it was on,
\* and flush returns.
C29_StopBounded ==
    /\ [](run.stage = "flush" => \A i \in Goroutines : run.after[i] <= 1)
    /\ [][run.stage = "flush" =>
             \A i \in Goroutines :
                 (stopped /\ run.g[i].pc = "top") => run'.g[i].pc # "body"]_vars
    /\ ((run.stage = "flush" /\ stopped) ~> (run.phase = "done"))

\* stopCh was closed while a goroutine was in the body of an iteration: it
\* completed that group, left the other entries of its map, and flush
\* returned
C29_Witness ==
    /\ run.stage = "flush"
    /\ run.phase = "done"
    /\ stopped
    /\ \E i \in Goroutines : run.after[i] = 1 /\ run.abandoned[i] >= 1

\* the workers whose shard, local counter or call state a step changes
Touched ==
    {w \in Workers :
        \/ shards'[w] # shards[w]
        \/ wpc'[w] # wpc[w]
        \/ wbr'[w] # wbr[w]
        \/ charged'[w] # charged[w]}

\* C30: a step of a writeBlock call changes the group map and the local
\* counter of the caller's shard only; besides that it changes the global
\* counter and the cancel signal; the shards of the other workers are
\* unchanged, whatever the other workers are doing.
C30_WriteBlockFrame ==
    [][(fpc = "ingest" /\ fpc' = "ingest") =>
          /\ Cardinality(Touched) <= 1
          /\ \A w \in Workers :
                 shards'[w] # shards[w] =>
                     /\ wpc[w] \in {"idle", "loop"}
                     /\ \A v \in Workers \ {w} : shards'[v] = shards[v]
      ]_vars

\* two workers have each built state in their own shard, one of them while
\* the other was inside its budget loop
C30_Witness ==
    /\ fpc = "ingest"
    /\ workersCount = 2
    /\ entriesCount(shards[0].m) > 0
    /\ entriesCount(shards[1].m) > 0
    /\ shards[0].m # shards[1].m
    /\ \E w \in Workers : wpc[w] = "loop"

\* the goroutines of flush that are running
ScatterRunning == IF fpc = "scatter" THEN {i \in Workers : spc[i] = "run"} ELSE {}
MergeRunning ==
    IF fpc = "merge" THEN {c \in 0..(cpusCount - 1) : mpc[c] = "run"} ELSE {}
WritersRunning ==
    IF fpc = "emit" THEN {j \in DOMAIN writers : ~writers[j].done} ELSE {}

\* no group is reachable from the maps of two goroutines of one stage
GroupsPrivate ==
    /\ fpc = "merge" =>
           \A i, j \in Workers : \A c, d \in 0..(cpusCount - 1) :
               c # d => MapRefs(perShardMaps[i][c]) \cap
                            MapRefs(perShardMaps[j][d]) = {}
    /\ fpc = "emit" =>
           \A j, k \in DOMAIN writers :
               j # k => MapRefs(psms[j + 1]) \cap MapRefs(psms[k + 1]) = {}

\* at most one stage has running goroutines, and a stage starts when the
\* goroutines of the stage before it have all returned
StagesSeparated ==
    /\ fpc = "merge" => \A i \in Workers : spc[i] = "done"
    /\ (fpc = "emit" /\ workersCount > 1) =>
           /\ \A i \in Workers : spc[i] = "done"
           /\ \A c \in 0..(cpusCount - 1) : mpc[c] = "done"

\* a step inside a stage writes the maps of one running goroutine only
OneGoroutineWrites ==
    /\ (fpc = "scatter" /\ fpc' = "scatter") =>
           \A i \in Workers :
               (shards'[i] # shards[i] \/ perShardMaps'[i] # perShardMaps[i]) =>
                   /\ i \in ScatterRunning
                   /\ \A j \in Workers \ {i} : spc'[j] = spc[j]
    /\ (fpc = "merge" /\ fpc' = "merge") =>
           /\ shards' = shards
           /\ \A i \in Workers : \A c \in 0..(cpusCount - 1) :
                  perShardMaps'[i][c] # perShardMaps[i][c] =>
                      /\ c \in MergeRunning
                      /\ \A d \in (0..(cpusCount - 1)) \ {c} : mpc'[d] = mpc[d]
    /\ (fpc = "emit" /\ fpc' = "emit") =>
           /\ shards' = shards /\ perShardMaps' = perShardMaps /\ psms' = psms
           /\ \A j \in DOMAIN writers :
                  (writers'[j] # writers[j] \/ nextCalls'[j] # nextCalls[j]) =>
                      /\ j \in WritersRunning
                      /\ \A k \in (DOMAIN writers) \ {j} :
                             writers'[k] = writers[k] /\ nextCalls'[k] = nextCalls[k]

\* C31: during flush scatter goroutine i writes only shard i's map and
\* perShardMaps[i], merge goroutine c only the maps perShardMaps[*][c], writer
\* j only its own map; no group is in the maps of two goroutines of a stage;
\* and the goroutines of a stage start after those of the stage before it
\* have all returned.
C31_GoroutinesDisjoint ==
    [](GroupsPrivate /\ StagesSeparated) /\ [][OneGoroutineWrites]_vars

\* a merge goroutine has returned while another still runs, both with groups
\* of their own
C31_Witness ==
    /\ fpc = "merge"
    /\ mpc[0] = "done"
    /\ mpc[1] = "run"
    /\ entriesCount(perShardMaps[0][0]) > 0
    /\ entriesCount(perShardMaps[1][1]) > 0

\* what a lookup on a shard may do: res is what getPipeStatsGroup* returned.
\* A hit leaves the shard as it is; a miss adds the one entry res refers to,
\* with len(funcs) fresh accumulators, keeps every other entry, lowers the
\* local budget, and a second lookup of the key is a hit on the same entry.
LazyLookup(shard, res, again) ==
    LET ref == [kind |-> res.kind, key |-> res.key]
    IN /\ ref \in MapRefs(res.shard.m)
       /\ IF ref \in MapRefs(shard.m)
          THEN res.shard = shard
          ELSE /\ MapRefs(res.shard.m) = MapRefs(shard.m) \cup {ref}
               /\ entriesCount(res.shard.m) = entriesCount(shard.m) + 1
               /\ \A r \in MapRefs(shard.m) :
                      GroupAt(res.shard.m, r) = GroupAt(shard.m, r)
               /\ GroupAt(res.shard.m, ref).sfps = [i \in 1..Len(Funcs) |-> 0]
               /\ res.shard.stateSizeBudget < shard.stateSizeBudget
       /\ again = res

\* C32: on every shard the writeBlock calls build, a lookup of a key that is in the
\* map returns its group and changes neither the map nor the local budget; a
\* lookup of a key that is not adds exactly one entry to exactly one sub-map,
\* with len(funcs) fresh accumulators, and lowers the local budget; the next
\* lookup of that key returns the entry the miss created.
C32_LazyGroups ==
    fpc = "ingest" =>
        \A w \in Workers :
            /\ \A v \in ByValues \cup {<<>>} :
                   /\ LazyLookup(shards[w], getPipeStatsGroupGeneric(shards[w], v),
                          getPipeStatsGroupGeneric(
                              getPipeStatsGroupGeneric(shards[w], v).shard, v))
                   /\ LazyLookup(shards[w], getPipeStatsGroupString(shards[w], v),
                          getPipeStatsGroupString(
                              getPipeStatsGroupString(shards[w], v).shard, v))
            /\ \A v \in Int64Values :
                   LazyLookup(shards[w],
                       getPipeStatsGroupInt64(shards[w], unmarshalInt64(v)),
                       getPipeStatsGroupInt64(
                           getPipeStatsGroupInt64(shards[w],
                               unmarshalInt64(v)).shard,
                           unmarshalInt64(v)))

\* a shard whose group of the key 0 was created by one row and found again by
\* the rows after it, while other keys are still missing
C32_Witness ==
    /\ fpc = "ingest"
    /\ byFieldsLen = 1
    /\ 0 \in DOMAIN shards[0].m.u64
    /\ shards[0].m.u64[0].sfps[1] >= 3
    /\ entriesCount(shards[0].m) = 1

\* the rows of the blocks flush passed to ppBase.writeBlock
SingleMapRowsOut ==
    IF nextCalls = <<>> THEN 0
    ELSE SumSeq([k \in 1..Len(nextCalls[0]) |-> Len(nextCalls[0][k].rows)])

\* C33: in the revision with one map per shard, with no by-fields, no rows
\* written, stopCh open and a positive budget, flush returns nil and passes on
\* exactly one row, whatever the number of workers.
C33_SingleMapEmptyInput ==
    (/\ fpc = "done"
     /\ byFieldsLen = 0
     /\ input = EmptyBag
     /\ ~stopped
     /\ maxStateSize > 0) =>
        /\ flushErr = "nil"
        /\ SingleMapRowsOut = 1

\* the same with two workers or more
C33_SeveralWorkers ==
    (/\ fpc = "done"
     /\ workersCount >= 2
     /\ byFieldsLen = 0
     /\ input = EmptyBag
     /\ ~stopped
     /\ maxStateSize > 0) =>
        /\ flushErr = "nil"
        /\ SingleMapRowsOut = 1

\* C34: every workerID of a block flush passes to the next pipe, and of every
\* writer goroutine it starts, is below the workersCount of the processor.
C34_WorkerIDBelowWorkersCount ==
    /\ \A j \in DOMAIN writers : writers[j].workerID < workersCount
    /\ \A j \in DOMAIN nextCalls :
           \A k \in 1..Len(nextCalls[j]) :
               nextCalls[j][k].workerID < workersCount

\* the merge goroutines, which index every perShardMaps[i], run only when
\* every scatter goroutine has set its slot
NoUnsetSlotRead ==
    fpc = "merge" => \A i \in Workers : perShardMaps[i] # <<>>

\* with stopCh closed while the scatter or the merge goroutines run, flush
\* goes nowhere but to its return, with nil, no writer and no call
StoppedMergeReturnsNil ==
    (stopped /\ fpc \in {"scatter", "merge"}) =>
        /\ fpc' \in {fpc, "done"}
        /\ fpc' = "done" => flushErr' = "nil"
        /\ psms' = <<>> /\ writers' = <<>> /\ nextCalls' = <<>>

\* C35: when stopCh closes during the scatter or the merge (so that goroutines
\* may return early, leaving a slot of perShardMaps unset or a map partly
\* merged), no merge goroutine and no filter step reads an unset slot, no map
\* reaches a writer, nothing is passed to the next pipe, and flush returns nil.
C35_InterruptedMergeReturnsNil ==
    []NoUnsetSlotRead /\ [][StoppedMergeReturnsNil]_vars

\* flush has returned nil after a scatter goroutine returned early, leaving
\* its slot unset
C35_Witness ==
    /\ fpc = "done"
    /\ flushErr = "nil"
    /\ \E i \in Workers :
           /\ spc # <<>>
           /\ spc[i] = "done"
           /\ perShardMaps[i] = <<>>
           /\ entriesCount(shards[i].m) > 0
    /\ \E j \in Workers : perShardMaps # <<>> /\ perShardMaps[j] # <<>>
    /\ nextCalls = <<>>

\* the bytes credited to the shards' local counters by successful draws: the
\* counters start at zero, so it is what they hold plus what was charged
Credited == LocalUpTo(workersCount) + TotalCharged

\* a writeBlock step that changes a shard's map does so with a local counter
\* that, after the draw of the step, is not negative
ProcessesOnNonNegative ==
    \A w \in Workers :
        (fpc = "ingest" /\ shards'[w].m # shards[w].m) =>
            shards[w].stateSizeBudget + (stateSizeBudget - stateSizeBudget') >= 0

\* C36: for every interleaving of the workers' writeBlock calls the budget
\* credited to the local counters is a number of chunks that never exceeds
\* maxStateSize, and a shard processes a block only with a local counter >= 0.
C36_CreditedWithinMax ==
    /\ [](/\ Credited <= maxStateSize
          /\ Credited % stateSizeBudgetChunk = 0
          /\ Credited >= 0)
    /\ [][ProcessesOnNonNegative]_vars

\* of two shards that both hold groups one has drawn the only chunk there
\* was, and the draw of the other has failed
C36_Witness ==
    /\ workersCount = 2
    /\ dropped > 0
    /\ Credited = maxStateSize
    /\ Credited >= stateSizeBudgetChunk
    /\ \A w \in Workers : entriesCount(shards[w].m) > 0 /\ charged[w] > 0

\* C37: no step raises the global counter, so a counter that is <= 0 stays
\* <= 0, and a flush that runs with the counter <= 0 returns the budget error.
C37_GlobalBudgetNeverGrows ==
    /\ [][/\ stateSizeBudget' <= stateSizeBudget
          /\ stateSizeBudget <= 0 => stateSizeBudget' <= 0]_vars
    /\ []((flushErr # "none" /\ stateSizeBudget <= 0) => flushErr = "budget")

\* the counter went below zero, further calls drew from it, and flush has
\* returned the budget error
C37_Witness ==
    /\ fpc = "done"
    /\ flushErr = "budget"
    /\ stateSizeBudget < 0 - stateSizeBudgetChunk
    /\ dropped >= 2

\* C38: from its first statement to its return flush leaves the global counter
\* as it is, so a flush that starts when every writeBlock call has returned
\* reports the budget error at its first check or never: the checks after the
\* scatter and after the merge do not fail.
C38_FlushKeepsGlobalBudget ==
    /\ [][fpc # "ingest" => stateSizeBudget' = stateSizeBudget]_vars
    /\ [][(fpc \in {"scatter", "merge"} /\ fpc' = "done") =>
              flushErr' # "budget"]_vars
    /\ [](flushErr = "budget" => (spc = <<>> /\ mpc = <<>>))

\* a flush over two shards that had drawn from the global counter has passed
\* both checks, made the empty-key group or merged, and returned nil
C38_Witness ==
    /\ fpc = "done"
    /\ flushErr = "nil"
    /\ workersCount = 2
    /\ ~stopped
    /\ stateSizeBudget < maxStateSize
    /\ \A c \in DOMAIN mpc : mpc[c] = "done"
    /\ mpc # <<>>
    /\ nextCalls # <<>>

\* C39: a flush that was called returns, with stopCh open or closed at any
\* point: every goroutine it started finishes and every wg.Wait() returns.
C39_FlushTerminates ==
    /\ (fpc \in {"scatter", "merge", "merged", "emit"}) ~> (fpc = "done")
    /\ [](fpc = "done" =>
              /\ \A i \in DOMAIN spc : spc[i] = "done"
              /\ \A c \in DOMAIN mpc : mpc[c] = "done"
              /\ \A j \in DOMAIN writers : writers[j].done)

\* flush has returned after its scatter, merge and writer goroutines all ran,
\* with stopCh closed on the way
C39_Witness ==
    /\ fpc = "done"
    /\ spc # <<>> /\ mpc # <<>> /\ writers # <<>>
    /\ Cardinality(DOMAIN writers) = 2
    /\ stopped /\ ~stopAtFlush

====
